---- MODULE Spec2Model ----
(***************************************************************************)
(* kdbus message-dispatch core: the connection object (active reference,   *)
(* bus hash membership, receive queue, reply trackers), the unicast send   *)
(* path with synchronous waits, the reply-timeout worker, MSG_RECV,        *)
(* MSG_CANCEL and connection disconnect, as implemented in                 *)
(* src/connection.c, src/bus.c and src/endpoint.c.                         *)
(*                                                                         *)
(* Threads of user processes issue commands on connections.  Every         *)
(* critical section of the code (one lock hold, one atomic operation, one  *)
(* blocking wait) is one step of the thread that runs it.                  *)
(***************************************************************************)
EXTENDS Integers, Sequences, FiniteSets, TLC

(* ------------------------------------------------------------------ *)
(* Bounds of the model                                                 *)
(* ------------------------------------------------------------------ *)

\* number of connection ids the bus hands out (HELLO calls that reach the
\* id allocation)
MaxConns == 2

\* number of connections of a bus on which messages have several
\* receivers (broadcast receivers, monitors)
MaxPeers == 3

\* number of messages that may be sent in one behaviour (caps msg_seq_last)
MaxSeq == 5

\* number of system calls that may be entered in one behaviour
MaxCmds == 3

\* number of system calls that may be entered in one behaviour that loads
\* the queue of a connection
MaxLoadCmds == 5

\* number of system calls that may be entered in one behaviour in which
\* connections with loaded queues are disconnected
MaxByeCmds == 6

\* the clock runs from 0 to MaxTime
MaxTime == 1

\* cookies are drawn from 1..MaxCookie
MaxCookie == 1

\* number of reply tracker objects that can be allocated at one time
MaxReplies == 2

Threads == {"t1", "t2"}
ConnIds == 1 .. MaxPeers
Cookies == 1 .. MaxCookie
ReplyIds == 1 .. MaxReplies
Times == 0 .. MaxTime

\* well-known names a connection can ask for
MaxNames == 1
Names == 1 .. MaxNames

\* name ids a registry hands out
MaxNameSeq == 2

(* ------------------------------------------------------------------ *)
(* Program constants                                                   *)
(* ------------------------------------------------------------------ *)

\* #define KDBUS_CONN_ACTIVE_BIAS (INT_MIN + 1)
KDBUS_CONN_ACTIVE_BIAS == -2147483647

\* limits.h is not part of the sources; the limits are scaled down so that
\* the model reaches them
KDBUS_CONN_MAX_MSGS == 3
KDBUS_CONN_MAX_MSGS_PER_USER == 2
KDBUS_CONN_MAX_REQUESTS_PENDING == 2

\* number of buckets of bus->conn_hash
HashBuckets == 2

\* credentials of the threads (current_cred()->fsuid == ->uid)
ThreadUid(t) == IF t = "t1" THEN "root" ELSE "user"

\* uid of the creator of the bus (bus->uid_owner)
BusUidOwner == ThreadUid("t1")

\* ns_capable(&init_user_ns, CAP_IPC_OWNER) of the calling thread
ns_capable(t) == FALSE

\* return codes
OK == "OK"
ECONNRESET == "ECONNRESET"
EALREADY == "EALREADY"
EBUSY == "EBUSY"
ENOENT == "ENOENT"
ENXIO == "ENXIO"
EPERM == "EPERM"
EMLINK == "EMLINK"
ENOMEM == "ENOMEM"
ENOBUFS == "ENOBUFS"
EPIPE == "EPIPE"
ECANCELED == "ECANCELED"
ETIMEDOUT == "ETIMEDOUT"
EINTR == "EINTR"
EAGAIN == "EAGAIN"
ESHUTDOWN == "ESHUTDOWN"
ECOMM == "ECOMM"
ESRCH == "ESRCH"
EREMCHG == "EREMCHG"
EADDRNOTAVAIL == "EADDRNOTAVAIL"
EEXIST == "EEXIST"
EADDRINUSE == "EADDRINUSE"
EOPNOTSUPP == "EOPNOTSUPP"
EMFILE == "EMFILE"
EINVAL == "EINVAL"

\* the flag of HELLO by which a connection opts in to file descriptors
KDBUS_HELLO_ACCEPT_FD == "ACCEPT_FD"
KDBUS_HELLO_ACTIVATOR == "ACTIVATOR"
KDBUS_HELLO_POLICY_HOLDER == "POLICY_HOLDER"
KDBUS_HELLO_MONITOR == "MONITOR"

\* msg->dst_id of a message that is addressed by name only
KDBUS_DST_ID_NAME == 0

(* ------------------------------------------------------------------ *)
(* State                                                               *)
(* ------------------------------------------------------------------ *)

VARIABLES
    conn_seq_last,  \* bus->conn_seq_last: last connection id handed out
    active,         \* conn->active, the active-reference counter
    cred,           \* conn->cred: uid of the creator of the connection
    flags,          \* conn->flags: the flags the connection passed to HELLO
    name_registry,  \* bus->name_registry: name -> struct kdbus_name_entry
    domain,         \* the domain: its bus list, its users and their counters
    bus,            \* the bus of the connections: bus->disconnected,
                    \* bus->ep_list, bus->monitors_list, its endpoint's
                    \* ep->disconnected, and the connections kfree() got
    attach_flags,   \* conn->attach_flags: the metadata items a connection
                    \* asks for
    conn_hash,      \* bus->conn_hash: bucket -> connections hashed in it
    ep_conn_list,   \* ep->conn_list of the bus endpoint
    queue,          \* conn->queue.msg_list, head first
    msg_users,      \* conn->msg_users: per-user counters; <<>> until allocated
    reply_list,     \* conn->reply_list, head first, of tracker addresses
    reply_count,    \* conn->reply_count
    replies,        \* the heap of struct kdbus_conn_reply objects
    work,           \* conn->work: expiry time of the delayed work, -1 if idle
    splice,         \* LIST_HEAD(reply_list) local to kdbus_conn_disconnect()
    notify,         \* reply notifications handed to kdbus_notify_*()
    bug,            \* the BUG_ON() that fired, "" while none did
    answered,       \* history: <<caller, replier, cookie>> of the calls whose
                    \* tracker a reply has consumed
    msg_seq_last,   \* domain->msg_seq_last
    now,            \* the monotonic clock
    cmds,           \* number of system calls that may still be entered
    th              \* per thread: position and locals of its system call

vars == <<conn_seq_last, active, bus, cred, domain, flags, name_registry,
          attach_flags, conn_hash,
          ep_conn_list, queue,
          msg_users, reply_list, reply_count, replies, work, splice, notify,
          bug, answered, msg_seq_last, now, cmds, th>>

connVars == <<conn_seq_last, active, bus, cred, domain, flags, name_registry,
             attach_flags, conn_hash,
             ep_conn_list>>
heapVars == <<queue, msg_users, reply_list, reply_count, replies, work,
              splice, notify, bug, answered>>

\* everything but the domain and the budget of system calls
busVars == <<conn_seq_last, active, bus, cred, flags, name_registry,
             attach_flags, conn_hash, ep_conn_list, heapVars, msg_seq_last,
             now, th>>

\* uids of the users of a domain
DomainUids == {1, 10}

\* struct kdbus_domain_user when nothing refers to it: kref, buses,
\* connections
NoUser == [kref |-> 0, buses |-> 0, connections |-> 0]

\* a thread that is not in kdbus_bus_new(); ret is the result of its last
\* call
NoMake == [pc |-> "idle", name |-> <<>>, uid |-> 0, capable |-> FALSE,
           ret |-> OK]

\* a domain without buses: domain->bus_list and bus_seq_last, the users
\* of the domain, the connections to its buses, and the position of each
\* thread in kdbus_bus_new()
NoDomain == [bus_list |-> <<>>, bus_seq_last |-> 0,
             users |-> [u \in DomainUids |-> NoUser],
             conns |-> <<>>,
             make |-> [t \in Threads |-> NoMake]]

\* a freed or never allocated slot of the tracker heap
\* a bus with its endpoint "bus" (bus.c line 352), without monitors
NoBus == [disconnected |-> FALSE, ep_disconnected |-> FALSE,
          ep_list |-> <<"bus">>, monitors_list |-> <<>>, freed |-> {}]

NoReply == [free |-> TRUE]

\* struct kdbus_conn_reply as kdbus_conn_reply_new() fills it in
Reply(dst, cookie, deadline, sync) ==
    [free |-> FALSE, kref |-> 1, reply_dst |-> dst, cookie |-> cookie,
     name_id |-> 0, deadline_ns |-> deadline, sync |-> sync,
     waiting |-> sync, interrupted |-> FALSE, err |-> OK,
     queue_entry |-> FALSE]

\* struct kdbus_msg, the fields the dispatch core reads.  timeout_ns and
\* cookie_reply share storage: a message with EXPECT_REPLY has a timeout,
\* any other one a cookie_reply (0 if it is no reply).  The messages sent
\* are calls and messages that name a cookie_reply; the latter take the
\* path of an ordinary message when no tracker matches.
\* dst_name is kmsg->dst_name (0 when the message names no destination),
\* dst_name_id is kmsg->dst_name_id and no_auto_start the flag
\* KDBUS_MSG_FLAGS_NO_AUTO_START.  src_id is msg->src_id and meta the
\* items kmsg->meta holds; both are 0 and empty until the send fills them
\* in.
NoMsg == [dst_id |-> 0, cookie |-> 0, expect_reply |-> FALSE,
          sync_reply |-> FALSE, timeout_ns |-> 0, cookie_reply |-> 0,
          priority |-> 0, fds_count |-> 0, dst_name |-> 0,
          dst_name_id |-> 0, no_auto_start |-> FALSE, src_id |-> 0,
          meta |-> {}]

Msgs ==
    {[dst_id |-> d, cookie |-> k, expect_reply |-> TRUE, sync_reply |-> s,
      timeout_ns |-> to, cookie_reply |-> 0, priority |-> 0,
      fds_count |-> 0, dst_name |-> 0, dst_name_id |-> 0,
      no_auto_start |-> FALSE, src_id |-> 0, meta |-> {}] :
        d \in 1 .. MaxConns, k \in Cookies, s \in BOOLEAN,
        to \in 1 .. MaxTime}
    \cup
    {[dst_id |-> d, cookie |-> k, expect_reply |-> FALSE,
      sync_reply |-> FALSE, timeout_ns |-> 0, cookie_reply |-> kr,
      priority |-> 0, fds_count |-> 0, dst_name |-> 0, dst_name_id |-> 0,
      no_auto_start |-> FALSE, src_id |-> 0, meta |-> {}] :
        d \in 1 .. MaxConns, k \in Cookies, kr \in Cookies}

\* locals of a thread that is not in a system call
\*   conn  the connection the command is issued on
\*   ret   the value the system call returns
\*   msg, rw, rk   kmsg->msg, reply_wait, reply_wake of
\*                 kdbus_conn_kmsg_send()
\*   dst   conn_dst of kdbus_conn_kmsg_send(), 0 while it is NULL
\*   moved how many entries and trackers the command moved to another
\*         connection
\*   until the time at which wait_event_interruptible_timeout() expires
\*   enq   how often the request of this call was put on a queue
\*   restart  the call returned EINTR and may be issued again
\*   seq   kmsg->seq of the kmsg of this call, 0 while it has none
\*   cmd     the command the thread is in, where a property asks for it
\*   caller  where kdbus_conn_disconnect() returns to when a teardown
\*           loop called it, "" when a command called it
\*   held  the locks the thread holds
\*   todo  the lock and unlock calls the function it is in still makes
Idle == [pc |-> "idle", conn |-> 0, ret |-> OK, msg |-> NoMsg, rw |-> 0,
         rk |-> 0, until |-> 0, enq |-> 0, restart |-> FALSE, seq |-> 0,
         dst |-> 0, moved |-> 0, held |-> {}, todo |-> <<>>, cmd |-> "",
         caller |-> ""]

Conns == 1 .. conn_seq_last

\* thread t enters a system call; a BUG_ON() that fired has stopped the
\* machine
syscall_enter(t) ==
    /\ bug = ""
    /\ th[t].pc = "idle"
    /\ cmds > 0
    /\ cmds' = cmds - 1

Range(s) == {s[i] : i \in 1 .. Len(s)}

Remove(s, x) == SelectSeq(s, LAMBDA y : y # x)

Max(a, b) == IF a >= b THEN a ELSE b

\* hash_min(id, HASH_BITS(conn_hash))
BucketOf(id) == id % HashBuckets

Hashed == UNION {conn_hash[b] : b \in 0 .. HashBuckets - 1}

\* conn->user->idr: index of the accounting user of a connection
UserIdr(c) == IF cred[c] = BusUidOwner THEN 0 ELSE 1

\* bool kdbus_conn_active(conn)
kdbus_conn_active(c) == active[c] >= 0

\* a removal from the hash that removes nothing
hash_del_nothing(h, c) == h

\* hash_del(&conn->hentry)
hash_del(h, c) == [b \in DOMAIN h |-> h[b] \ {c}]

\* struct kdbus_conn *kdbus_bus_find_conn_by_id(bus, id): 0 when not found
kdbus_bus_find_conn_by_id(id) ==
    IF id \in conn_hash[BucketOf(id)] THEN id ELSE 0

\* cookies of the calls of a client that numbers its messages
MaxCallCookie == 3

CallCookies == 1 .. MaxCallCookie

NotifyKeys ==
    {"REPLY_TIMEOUT", "REPLY_DEAD"} \X ConnIds \X (Cookies \cup CallCookies)

\* the kind of a connection, from the flags of its HELLO
kdbus_conn_is_activator(c) == KDBUS_HELLO_ACTIVATOR \in flags[c]

kdbus_conn_is_policy_holder(c) == KDBUS_HELLO_POLICY_HOLDER \in flags[c]

kdbus_conn_is_monitor(c) == KDBUS_HELLO_MONITOR \in flags[c]

kdbus_conn_is_ordinary(c) ==
    /\ ~kdbus_conn_is_activator(c)
    /\ ~kdbus_conn_is_policy_holder(c)
    /\ ~kdbus_conn_is_monitor(c)

\* a name without an entry in the registry; conn and activator are 0 for
\* NULL
NoName == [name_id |-> 0, conn |-> 0, activator |-> 0]

\* the registry of a bus on which no name was ever acquired
NoNames == [name_seq_last |-> 0, entries |-> [n \in Names |-> NoName]]

\* kdbus_name_lock(bus->name_registry, name): the entry, NoName for NULL
kdbus_name_lock(name) == name_registry.entries[name]

\* everything but the connections and names of a bus that was just created
InitHeap ==
    /\ queue = [c \in ConnIds |-> <<>>]
    /\ msg_users = [c \in ConnIds |-> <<>>]
    /\ reply_list = [c \in ConnIds |-> <<>>]
    /\ reply_count = [c \in ConnIds |-> 0]
    /\ replies = [r \in ReplyIds |-> NoReply]
    /\ work = [c \in ConnIds |-> -1]
    /\ splice = [t \in Threads |-> <<>>]
    /\ notify = [k \in NotifyKeys |-> 0]
    /\ bug = ""
    /\ answered = {}
    /\ msg_seq_last = 0
    /\ now = 0
    /\ th = [t \in Threads |-> Idle]
    /\ domain = NoDomain

\* a bus on which no name is registered
InitRest ==
    /\ InitHeap
    /\ bus = NoBus
    /\ name_registry = NoNames
    /\ attach_flags = [c \in ConnIds |-> {}]

\* a new bus: no connection yet
InitBus ==
    /\ conn_seq_last = 0
    /\ active = [c \in ConnIds |-> 0]
    /\ cred = [c \in ConnIds |-> ""]
    /\ flags = [c \in ConnIds |-> {}]
    /\ conn_hash = [b \in 0 .. HashBuckets - 1 |-> {}]
    /\ ep_conn_list = <<>>
    /\ cmds = MaxCmds
    /\ InitRest

\* the connections of a bus on which every thread has made one connection
\* with HELLO, the threads in the order of their names
InitConns ==
    /\ conn_seq_last = MaxConns
    /\ active = [c \in ConnIds |-> 0]
    /\ cred = [c \in ConnIds |-> IF c = 1 THEN ThreadUid("t1")
                                          ELSE ThreadUid("t2")]
    /\ conn_hash = [b \in 0 .. HashBuckets - 1 |->
                       {c \in 1 .. MaxConns : BucketOf(c) = b}]
    /\ ep_conn_list = [i \in 1 .. MaxConns |-> i]
    /\ InitRest

\* connections of clients that accept file descriptors
AcceptAll == [c \in ConnIds |-> {KDBUS_HELLO_ACCEPT_FD}]

Init == InitConns /\ flags = AcceptAll /\ cmds = MaxCmds

\* the same bus, for a behaviour that loads the queue of a connection
InitLoad == InitConns /\ flags = AcceptAll /\ cmds = MaxLoadCmds

\* the same bus, for a behaviour that disconnects loaded connections
InitBye == InitConns /\ flags = AcceptAll /\ cmds = MaxByeCmds

\* the same bus, every connection with the flags it chose at HELLO
InitFd ==
    /\ InitConns
    /\ flags \in [ConnIds -> SUBSET {KDBUS_HELLO_ACCEPT_FD}]
    /\ \A c \in ConnIds \ Conns : flags[c] = {}
    /\ cmds = MaxCmds

(* ------------------------------------------------------------------ *)
(* The state the message paths work on, as one value, so that the      *)
(* statements of a function compose in program order                   *)
(* ------------------------------------------------------------------ *)

Cur == [queue |-> queue, msg_users |-> msg_users, reply_list |-> reply_list,
        reply_count |-> reply_count, replies |-> replies, work |-> work,
        splice |-> splice, notify |-> notify, bug |-> bug,
        answered |-> answered]

Commit(S) ==
    /\ queue' = S.queue
    /\ msg_users' = S.msg_users
    /\ reply_list' = S.reply_list
    /\ reply_count' = S.reply_count
    /\ replies' = S.replies
    /\ work' = S.work
    /\ splice' = S.splice
    /\ notify' = S.notify
    /\ bug' = S.bug
    /\ answered' = S.answered

\* BUG_ON(cond) with cond true
BUG(S, what) == [S EXCEPT !.bug = IF @ = "" THEN what ELSE @]

\* list_del_init(&reply->entry): the entry leaves the list it is linked on
list_del_init(S, r) ==
    [S EXCEPT !.reply_list = [c \in ConnIds |-> Remove(S.reply_list[c], r)],
              !.splice = [t \in Threads |-> Remove(S.splice[t], r)]]

\* list_add() on the list of the connection that awaits the reply
list_add_reply_dst(S, r, c) ==
    [S EXCEPT !.reply_list[S.replies[r].reply_dst] = <<r>> \o @]

\* list_add(&reply->entry, &conn->reply_list): at the head
list_add(S, r, c) == [S EXCEPT !.reply_list[c] = <<r>> \o @]

\* __kdbus_conn_reply_free()
kdbus_conn_reply_free(S, r) ==
    [S EXCEPT !.reply_count[S.replies[r].reply_dst] = @ - 1,
              !.replies[r] = NoReply]

\* kdbus_conn_reply_ref()
kdbus_conn_reply_ref(S, r) == [S EXCEPT !.replies[r].kref = @ + 1]

\* kdbus_conn_reply_unref()
kdbus_conn_reply_unref(S, r) ==
    IF S.replies[r].kref = 1
    THEN kdbus_conn_reply_free(S, r)
    ELSE [S EXCEPT !.replies[r].kref = @ - 1]

\* kdbus_conn_reply_sync(reply, err); the wake-up is the waiter's condition
\* becoming true
kdbus_conn_reply_sync(S, r, err) ==
    IF ~S.replies[r].sync
    THEN BUG(S, "kdbus_conn_reply_sync")
    ELSE [list_del_init(S, r) EXCEPT !.replies[r].waiting = FALSE,
                                     !.replies[r].err = err]

\* schedule_delayed_work(&conn->work, delay): no effect while pending
schedule_delayed_work(S, c, delay) ==
    IF S.work[c] # -1 THEN S ELSE [S EXCEPT !.work[c] = now + delay]

\* kdbus_notify_reply_timeout() / kdbus_notify_reply_dead()
kdbus_notify_reply(S, type, id, cookie) ==
    [S EXCEPT !.notify[<<type, id, cookie>>] = @ + 1]

\* kdbus_conn_find_reply(): the first tracker on conn_replying's list that
\* waits for a reply to (conn_reply_dst, cookie); 0 for -ENOENT
kdbus_conn_find_reply(S, conn_replying, conn_reply_dst, cookie) ==
    LET l == S.reply_list[conn_replying]
        hits == {i \in 1 .. Len(l) :
                    /\ S.replies[l[i]].reply_dst = conn_reply_dst
                    /\ S.replies[l[i]].cookie = cookie}
    IN IF S.reply_count[conn_reply_dst] = 0 \/ hits = {}
       THEN 0
       ELSE l[CHOOSE i \in hits : \A j \in hits : i <= j]

(* ------------------------------------------------------------------ *)
(* Queue                                                               *)
(* ------------------------------------------------------------------ *)

\* struct kdbus_queue_entry as kdbus_queue_entry_alloc() fills it in from
\* the kmsg; user is -1 while the entry is not accounted to a user
Entry(src, m) ==
    [src_id |-> m.src_id, cookie |-> m.cookie,
     cookie_reply |-> m.cookie_reply, priority |-> m.priority,
     fds_count |-> m.fds_count, dst_name_id |-> m.dst_name_id,
     meta |-> m.meta, reply |-> 0, user |-> -1]

\* an insertion at the head of the entries of lower or equal priority value
kdbus_queue_entry_add_first(q, e) ==
    LET n == Cardinality({i \in 1 .. Len(q) : q[i].priority < e.priority})
    IN SubSeq(q, 1, n) \o <<e>> \o SubSeq(q, n + 1, Len(q))

\* kdbus_queue_entry_add(): behind every entry of lower or equal priority
\* value, before the first of higher priority value
kdbus_queue_entry_add(q, e) ==
    LET n == Cardinality({i \in 1 .. Len(q) : q[i].priority <= e.priority})
    IN SubSeq(q, 1, n) \o <<e>> \o SubSeq(q, n + 1, Len(q))

\* kdbus_queue_entry_remove(conn, entry) for the entry at position i:
\* unlink it and give back the user's quota
kdbus_queue_entry_remove(S, c, i) ==
    LET e == S.queue[c][i]
        S1 == [S EXCEPT !.queue[c] =
                   SubSeq(@, 1, i - 1) \o SubSeq(@, i + 1, Len(@))]
    IN IF e.user >= 0
       THEN [S1 EXCEPT !.msg_users[c][e.user] = @ - 1]
       ELSE S1

\* values an element of the krealloc()ed msg_users array can hold before it
\* is first written: the memory is not zeroed
Uninitialized == {0, KDBUS_CONN_MAX_MSGS_PER_USER + 1}

\* kdbus_conn_queue_user_quota(conn, conn_src, entry), conn_src not NULL,
\* called by thread t; src is 0 for NULL.  garbage is the content of the
\* slot of the other
\* user when the array is allocated.
\* Result: [ret, S, user] with user the value stored in entry->user.
kdbus_conn_queue_user_quota(S, t, c, src, garbage) ==
    LET user == UserIdr(src)
        count == Len(S.queue[c])
        S1 == IF S.msg_users[c] = <<>>
              THEN [S EXCEPT !.msg_users[c] =
                       [u \in {0, 1} |-> IF u = user THEN count ELSE garbage]]
              ELSE S
    IN IF src = 0 \/ ns_capable(t) \/ count < KDBUS_CONN_MAX_MSGS_PER_USER
       THEN [ret |-> OK, S |-> S, user |-> -1]
       ELSE IF S1.msg_users[c][user] > KDBUS_CONN_MAX_MSGS_PER_USER
       THEN [ret |-> ENOBUFS, S |-> S1, user |-> -1]
       ELSE [ret |-> OK, S |-> [S1 EXCEPT !.msg_users[c][user] = @ + 1],
             user |-> user]

\* an insert that does not look at the active counter
kdbus_conn_entry_insert_any(S, t, c, src, m, reply, garbage) ==
    IF ~ns_capable(t) /\ Len(S.queue[c]) > KDBUS_CONN_MAX_MSGS
    THEN [ret |-> ENOBUFS, S |-> S]
    ELSE IF KDBUS_HELLO_ACCEPT_FD \notin flags[c] /\ m.fds_count > 0
    THEN [ret |-> ECOMM, S |-> S]
    ELSE
    LET q == kdbus_conn_queue_user_quota(S, t, c, src, garbage)
        e == [Entry(src, m) EXCEPT !.reply = reply, !.user = q.user]
        S1 == IF reply # 0
              THEN LET S2 == list_add(q.S, reply, c)
                   IN IF ~S2.replies[reply].sync
                      THEN schedule_delayed_work(S2, c, 0)
                      ELSE S2
              ELSE q.S
    IN IF q.ret # OK
       THEN [ret |-> q.ret, S |-> q.S]
       ELSE [ret |-> OK,
             S |-> [S1 EXCEPT !.queue[c] = kdbus_queue_entry_add(@, e)]]

\* kdbus_conn_entry_insert(conn, conn_src, kmsg, reply) called by thread t;
\* reply is 0 for NULL.  Result: [ret, S].
kdbus_conn_entry_insert(S, t, c, src, m, reply, garbage) ==
    IF ~ns_capable(t) /\ Len(S.queue[c]) > KDBUS_CONN_MAX_MSGS
    THEN [ret |-> ENOBUFS, S |-> S]
    ELSE IF ~kdbus_conn_active(c)
    THEN [ret |-> ECONNRESET, S |-> S]
    ELSE IF KDBUS_HELLO_ACCEPT_FD \notin flags[c] /\ m.fds_count > 0
    THEN [ret |-> ECOMM, S |-> S]
    ELSE
    LET q == kdbus_conn_queue_user_quota(S, t, c, src, garbage)
        e == [Entry(src, m) EXCEPT !.reply = reply, !.user = q.user]
        S1 == IF reply # 0
              THEN LET S2 == list_add(q.S, reply, c)
                   IN IF ~S2.replies[reply].sync
                      THEN schedule_delayed_work(S2, c, 0)
                      ELSE S2
              ELSE q.S
    IN IF q.ret # OK
       THEN [ret |-> q.ret, S |-> q.S]
       ELSE [ret |-> OK,
             S |-> [S1 EXCEPT !.queue[c] = kdbus_queue_entry_add(@, e)]]

(* ------------------------------------------------------------------ *)
(* Active references                                                   *)
(* ------------------------------------------------------------------ *)

\* an increment that does not look at the sign
atomic_inc(v) == v + 1

\* atomic_inc_unless_negative(&conn->active): the new value
atomic_inc_unless_negative(v) == IF v >= 0 THEN v + 1 ELSE v

\* int kdbus_conn_acquire(conn) succeeds for thread t on entry to a command
\* on connection c; the command's first critical section follows in the
\* same step.  A thread whose send returned EINTR issues that call again.
kdbus_conn_acquire(t, c) ==
    /\ syscall_enter(t)
    /\ c \in Conns
    /\ th[t].restart => c = th[t].conn
    /\ active' = [active EXCEPT ![c] = atomic_inc_unless_negative(@)]
    /\ active'[c] # active[c]

\* int kdbus_conn_acquire(conn) fails: the command returns -ECONNRESET
acquire_fail(t, c) ==
    /\ syscall_enter(t)
    /\ c \in Conns
    /\ th[t].restart => c = th[t].conn
    /\ active' = [active EXCEPT ![c] = atomic_inc_unless_negative(@)]
    /\ active'[c] = active[c]
    /\ th' = [th EXCEPT ![t] = [Idle EXCEPT !.pc = "done", !.conn = c,
                                            !.ret = ECONNRESET]]
    /\ UNCHANGED <<conn_seq_last, bus, cred, domain, flags, attach_flags, name_registry,
                   conn_hash, ep_conn_list, heapVars, msg_seq_last, now>>

\* void kdbus_conn_release(conn), on exit from the command
kdbus_conn_release(t) ==
    /\ bug = ""
    /\ th[t].pc = "release"
    /\ active' = [active EXCEPT ![th[t].conn] = @ - 1]
    /\ th' = [th EXCEPT ![t] =
                 IF th[t].ret = EINTR
                 THEN [Idle EXCEPT !.conn = th[t].conn, !.msg = th[t].msg,
                                   !.enq = th[t].enq, !.restart = TRUE]
                 ELSE Idle]
    /\ UNCHANGED <<conn_seq_last, bus, cred, domain, flags, attach_flags, name_registry,
                   conn_hash, ep_conn_list, heapVars, msg_seq_last, now,
                   cmds>>

\* return of a system call that holds no active reference
syscall_return(t) ==
    /\ bug = ""
    /\ th[t].pc = "done"
    /\ th' = [th EXCEPT ![t] = Idle]
    /\ UNCHANGED <<connVars, heapVars, msg_seq_last, now, cmds>>

(* ------------------------------------------------------------------ *)
(* MSG_SEND: kdbus_conn_kmsg_send() for a unicast message by id        *)
(* ------------------------------------------------------------------ *)

\* the command on connection c ends with ret; the caller drops its active
\* reference next
Finish(t, c, ret) ==
    [th EXCEPT ![t] = [@ EXCEPT !.pc = "release", !.conn = c, !.ret = ret,
                                !.seq = 0, !.dst = 0,
                                !.rw = 0, !.rk = 0, !.until = 0,
                                !.msg = IF ret = EINTR
                                        THEN [@ EXCEPT !.dst_name_id = 0,
                                                       !.src_id = 0,
                                                       !.meta = {}]
                                        ELSE NoMsg]]

\* kdbus_policy_check_talk_access(&bus->policy_db, ...): no policy holder
\* has uploaded a rule, the database grants nothing
kdbus_policy_check_talk_access(src, dst) == EPERM

\* kdbus_ep_policy_check_talk_access() on the bus endpoint (which has no
\* custom policy), thread t sending from src to dst: 0 or -EPERM
kdbus_ep_policy_check_talk_access(t, src, dst) ==
    IF \/ ns_capable(t) \/ BusUidOwner = cred[src]
       \/ cred[src] = cred[dst]
    THEN OK
    ELSE kdbus_policy_check_talk_access(src, dst)

\* kdbus_conn_reply_new(reply_dst, msg, name_entry), lines 89-109:
\* [ret, S, r].  The counter is incremented first; when the call fails, S
\* is the state before the atomic_dec() at exit_dec_reply_count.
kdbus_conn_reply_new(S, reply_dst, m) ==
    LET free == {r \in ReplyIds : S.replies[r].free}
        r == CHOOSE x \in free : \A y \in free : x <= y
        S1 == [S EXCEPT !.reply_count[reply_dst] = @ + 1]
    IN IF S1.reply_count[reply_dst] > KDBUS_CONN_MAX_REQUESTS_PENDING
       THEN [ret |-> EMLINK, S |-> S1, r |-> 0]
       ELSE IF free = {}
       THEN [ret |-> ENOMEM, S |-> S1, r |-> 0]
       ELSE [ret |-> OK, r |-> r,
             S |-> [S1 EXCEPT !.replies[r] =
                       [Reply(reply_dst, m.cookie, m.timeout_ns,
                              m.sync_reply) EXCEPT !.name_id = m.dst_name_id]]]

\* an access check that lets a message with a cookie_reply pass only when
\* it consumes a tracker
kdbus_conn_check_access_tracker_only(S, t, m, src, dst, with_wake) ==
    LET r == IF with_wake /\ m.cookie_reply > 0
             THEN kdbus_conn_find_reply(S, src, dst, m.cookie_reply)
             ELSE 0
        S1 == [list_del_init(S, r) EXCEPT
                  !.answered = @ \cup {<<dst, src, m.cookie_reply>>}]
    IN IF r # 0
       THEN IF S.replies[r].sync
            THEN [ret |-> OK, S |-> kdbus_conn_reply_ref(S1, r), wake |-> r]
            ELSE [ret |-> OK, S |-> kdbus_conn_reply_unref(S1, r), wake |-> 0]
       ELSE IF with_wake /\ m.cookie_reply > 0
       THEN [ret |-> EPERM, S |-> S, wake |-> 0]
       ELSE [ret |-> kdbus_ep_policy_check_talk_access(t, src, dst),
             S |-> S, wake |-> 0]

\* kdbus_conn_check_access(ep, msg, conn_src, conn_dst, &reply_wake):
\* [ret, S, wake]; with_wake is FALSE when reply_wake is passed as NULL
kdbus_conn_check_access(S, t, m, src, dst, with_wake) ==
    LET r == IF with_wake /\ m.cookie_reply > 0
             THEN kdbus_conn_find_reply(S, src, dst, m.cookie_reply)
             ELSE 0
        S1 == [list_del_init(S, r) EXCEPT
                  !.answered = @ \cup {<<dst, src, m.cookie_reply>>}]
    IN IF r # 0
       THEN IF S.replies[r].sync
            THEN [ret |-> OK, S |-> kdbus_conn_reply_ref(S1, r), wake |-> r]
            ELSE [ret |-> OK, S |-> kdbus_conn_reply_unref(S1, r), wake |-> 0]
       ELSE [ret |-> kdbus_ep_policy_check_talk_access(t, src, dst),
             S |-> S, wake |-> 0]

\* a read of the counter that does not increment it
atomic64_read(v) == v

\* atomic64_inc_return(&bus->domain->msg_seq_last): the new value
atomic64_inc_return(v) == v + 1

\* the metadata items a connection can ask for
Items == {"TIMESTAMP"}

\* kdbus_meta_append(meta, conn, seq, which): the items the buffer holds
\* after the items of which that it does not hold yet were appended
kdbus_meta_append(meta, which) == meta \cup which

\* conn->owner_meta: no connection of the model gave credentials of its
\* own at HELLO
owner_meta(c) == FALSE

\* the items a connection with owner_meta can have appended
OwnerItems == {"NAMES", "CONN_DESCRIPTION"}

\* an attachment that appends every item, whatever the destination asks
\* for
kdbus_kmsg_attach_everything(meta, conn_src, conn_dst) ==
    kdbus_meta_append(meta, Items)

\* kdbus_kmsg_attach_metadata(kmsg, conn_src, conn_dst): the items
\* kmsg->meta holds afterwards
kdbus_kmsg_attach_metadata(meta, conn_src, conn_dst) ==
    LET flags_dst == attach_flags[conn_dst]
        which == IF owner_meta(conn_src)
                 THEN flags_dst \cap OwnerItems
                 ELSE flags_dst
    IN kdbus_meta_append(meta, which)

\* what the read of name_entry->conn->id at line 788 does when
\* name_entry->conn is NULL: the kernel stops the thread with an oops, or
\* page 0 is mapped and holds a value that equals msg->dst_id or differs
\* from it
NullRead == {"oops", "equal", "differs"}

\* a choice that prefers the activator
name_receiver_activator(e) ==
    IF e.activator # 0 THEN e.activator ELSE e.conn

\* lines 793-796: the connection a message to the name of entry e goes to
name_receiver(e) ==
    IF e.conn = 0 /\ e.activator # 0 THEN e.activator ELSE e.conn

\* kdbus_conn_kmsg_send(), lines 773-826: the destination of message m:
\* [ret, dst, name_id, oops] with dst 0 for NULL; nr is the outcome of a
\* read through a NULL name_entry->conn
send_lookup(m, nr) ==
    LET none == [ret |-> OK, dst |-> 0, name_id |-> 0, oops |-> FALSE]
    IN IF m.dst_name # 0
       THEN LET e == kdbus_name_lock(m.dst_name)
                cmp == IF e.conn = 0 THEN nr
                       ELSE IF m.dst_id # e.conn THEN "differs" ELSE "equal"
                conn_dst == name_receiver(e)
            IN IF e.name_id = 0
               THEN [none EXCEPT !.ret = ESRCH]
               ELSE IF m.dst_id # KDBUS_DST_ID_NAME /\ cmp = "oops"
               THEN [none EXCEPT !.oops = TRUE]
               ELSE IF m.dst_id # KDBUS_DST_ID_NAME /\ cmp = "differs"
               THEN [none EXCEPT !.ret = EREMCHG]
               ELSE IF m.no_auto_start /\ kdbus_conn_is_activator(conn_dst)
               THEN [none EXCEPT !.ret = EADDRNOTAVAIL]
               ELSE [none EXCEPT !.dst = conn_dst, !.name_id = e.name_id]
       ELSE LET conn_dst == kdbus_bus_find_conn_by_id(m.dst_id)
            IN IF conn_dst = 0
               THEN [none EXCEPT !.ret = ENXIO]
               ELSE IF ~kdbus_conn_is_ordinary(conn_dst)
               THEN [none EXCEPT !.ret = ENXIO]
               ELSE [none EXCEPT !.dst = conn_dst]

\* kdbus_conn_kmsg_send(), lines 744-874, thread t sending m on connection
\* src: assign the sequence number, look the destination up, for a
\* synchronous call look for the tracker an interrupted earlier attempt
\* left on the destination, else check the access and create the tracker
\* of a call
send_begin(t, src, m) ==
    /\ kdbus_conn_acquire(t, src)
    /\ th[t].restart => m = th[t].msg
    /\ msg_seq_last < MaxSeq
    /\ msg_seq_last' = atomic64_inc_return(msg_seq_last)
    /\ \E nr \in NullRead :
       LET look == send_lookup(m, nr)
           dst == look.dst
           km == [m EXCEPT !.dst_name_id = look.name_id, !.src_id = src,
                           !.meta = IF dst = 0 THEN {}
                                    ELSE kdbus_kmsg_attach_metadata({}, src, dst)]
           found == IF dst # 0 /\ m.sync_reply
                    THEN kdbus_conn_find_reply(Cur, dst, src, m.cookie)
                    ELSE 0
           adopt == found # 0 /\ replies[found].interrupted
           a == kdbus_conn_check_access(Cur, t, m, src, dst, ~m.expect_reply)
           n == kdbus_conn_reply_new(a.S, src, km)
           me == [th[t] EXCEPT !.conn = src, !.msg = km, !.dst = dst,
                               !.seq = msg_seq_last',
                               !.enq = IF th[t].restart THEN @ ELSE 0,
                               !.restart = FALSE]
           fail(ret) == [th EXCEPT ![t] = [me EXCEPT !.pc = "release",
                                                     !.seq = 0, !.dst = 0,
                                                     !.ret = ret,
                                                     !.msg = NoMsg]]
       IN IF look.oops
          THEN /\ Commit(BUG(Cur, "NULL pointer dereference"))
               /\ th' = [th EXCEPT ![t] = [me EXCEPT !.pc = "oops"]]
          ELSE IF look.ret # OK
          THEN th' = fail(look.ret) /\ UNCHANGED heapVars
          ELSE IF adopt
          THEN /\ Commit([Cur EXCEPT !.replies[found].interrupted = FALSE])
               /\ th' = [th EXCEPT ![t] =
                            [me EXCEPT !.pc = "s_wait", !.rw = found,
                                       !.msg.meta = {},
                                       !.until = Max(m.timeout_ns, now)]]
          ELSE IF a.ret # OK
          THEN th' = fail(a.ret) /\ UNCHANGED heapVars
          ELSE IF ~m.expect_reply
          THEN /\ Commit(a.S)
               /\ th' = [th EXCEPT ![t] =
                            [me EXCEPT !.pc = "s_enqueue", !.rk = a.wake]]
          ELSE /\ Commit(n.S)
               /\ th' = IF n.ret # OK
                        THEN [th EXCEPT ![t] =
                                 [me EXCEPT !.pc = "s_nolink", !.ret = n.ret]]
                        ELSE [th EXCEPT ![t] =
                                 [me EXCEPT !.pc = "s_enqueue", !.rw = n.r]]
    /\ UNCHANGED <<conn_seq_last, bus, cred, domain, flags, attach_flags, name_registry,
                   conn_hash, ep_conn_list, now>>

\* kdbus_conn_reply_new(), lines 112-116: the call has failed, the counter
\* is decremented again and the send returns the error
reply_new_fail(t) ==
    /\ bug = ""
    /\ th[t].pc = "s_nolink"
    /\ Commit([Cur EXCEPT !.reply_count[th[t].conn] = @ - 1])
    /\ th' = Finish(t, th[t].conn, th[t].ret)
    /\ UNCHANGED <<connVars, msg_seq_last, now, cmds>>

\* bus->monitors_list: the monitors in the order of their HELLO
monitors_list == bus.monitors_list

\* the recipient at which kdbus_meta_append() fails while a message is
\* copied to the connections of list l, 0 when it does not fail
MetaFail(l) == {0} \cup Range(l)

\* kdbus_conn_eavesdrop(ep, conn, kmsg), lines 640-656, for the monitors of
\* list l: the state after the walk.  The result of the insert is dropped;
\* a failure of the append ends the walk.
RECURSIVE eavesdrop_loop(_, _, _, _, _, _)
eavesdrop_loop(S, t, m, l, nomem, garbage) ==
    IF l = <<>> THEN S
    ELSE LET c == Head(l)
             m1 == [m EXCEPT !.meta =
                               kdbus_kmsg_attach_metadata(@, m.src_id, c)]
         IN IF nomem = c
            THEN S
            ELSE eavesdrop_loop(
                     kdbus_conn_entry_insert(S, t, c, 0, m1, 0, garbage).S,
                     t, m1, Tail(l), nomem, garbage)

\* kdbus_conn_eavesdrop(ep, conn, kmsg)
kdbus_conn_eavesdrop(S, t, m, nomem, garbage) ==
    eavesdrop_loop(S, t, m, monitors_list, nomem, garbage)

\* msg->dst_id of a broadcast, (u64)~0 in the source
KDBUS_DST_ID_BROADCAST == -1

\* the members of a set of connections, the one hashed last first
RECURSIVE hlist(_)
hlist(cs) ==
    IF cs = {} THEN <<>>
    ELSE LET c == CHOOSE x \in cs : \A y \in cs : y <= x
         IN <<c>> \o hlist(cs \ {c})

\* hash_for_each(bus->conn_hash, ...): the connections from bucket b on
RECURSIVE hash_for_each(_)
hash_for_each(b) ==
    IF b >= HashBuckets THEN <<>>
    ELSE hlist(conn_hash[b]) \o hash_for_each(b + 1)

\* atomic_read(&conn->name_count): the names the connection owns
name_count(c) ==
    Cardinality({n \in Names : /\ name_registry.entries[n].name_id # 0
                               /\ name_registry.entries[n].conn = c})

\* kdbus_ep_policy_check_broadcast() on the bus endpoint, thread t sending
\* from src to dst: 0 or -EPERM
kdbus_ep_policy_check_broadcast(t, src, dst) ==
    IF \/ ns_capable(t) \/ BusUidOwner = cred[src]
       \/ cred[src] = cred[dst]
    THEN OK
    ELSE IF name_count(src) > 0 /\ name_count(dst) = 0
    THEN OK
    ELSE kdbus_policy_check_talk_access(src, dst)

\* kdbus_conn_broadcast(ep, conn_src, kmsg), lines 575-623, for the
\* connections of list l: the state after the walk.  nomatch are the
\* connections whose match database does not match the message, nomem the
\* one at which kdbus_meta_append() fails.
RECURSIVE broadcast_loop(_, _, _, _, _, _, _, _)
broadcast_loop(S, t, src, m, l, nomatch, nomem, garbage) ==
    IF l = <<>> THEN S
    ELSE LET c == Head(l)
             m1 == [m EXCEPT !.meta =
                               kdbus_kmsg_attach_metadata(@, src, c)]
             skip == broadcast_loop(S, t, src, m, Tail(l), nomatch, nomem,
                                    garbage)
         IN IF c = m.src_id
            THEN skip
            ELSE IF ~kdbus_conn_is_ordinary(c) /\ ~kdbus_conn_is_monitor(c)
            THEN skip
            ELSE IF c \in nomatch
            THEN skip
            ELSE IF kdbus_ep_policy_check_broadcast(t, src, c) # OK
            THEN skip
            ELSE IF nomem = c
            THEN S
            ELSE broadcast_loop(
                     kdbus_conn_entry_insert(S, t, c, src, m1, 0, garbage).S,
                     t, src, m1, Tail(l), nomatch, nomem, garbage)

\* kdbus_conn_kmsg_send(), lines 744-771, thread t sending the broadcast m
\* on connection src: assign the sequence number, copy the message to the
\* receivers, return 0
kdbus_conn_broadcast(t, src, m, nomatch, nomem) ==
    /\ kdbus_conn_acquire(t, src)
    /\ ~th[t].restart
    /\ m.dst_id = KDBUS_DST_ID_BROADCAST
    /\ msg_seq_last < MaxSeq
    /\ msg_seq_last' = atomic64_inc_return(msg_seq_last)
    /\ nomem \in MetaFail(hash_for_each(0))
    /\ \E garbage \in Uninitialized :
          Commit(broadcast_loop(Cur, t, src, [m EXCEPT !.src_id = src],
                                hash_for_each(0), nomatch, nomem, garbage))
    /\ th' = Finish(t, src, OK)
    /\ UNCHANGED <<conn_seq_last, bus, cred, domain, flags, attach_flags, name_registry,
                   conn_hash, ep_conn_list, now>>

\* kdbus_cmd_conn_update(conn, cmd) with an item KDBUS_ITEM_ATTACH_FLAGS
\* that holds which, by thread t on connection c
kdbus_cmd_conn_update(t, c, which) ==
    /\ kdbus_conn_acquire(t, c)
    /\ ~th[t].restart
    /\ IF ~kdbus_conn_is_ordinary(c) /\ ~kdbus_conn_is_monitor(c)
       THEN /\ th' = Finish(t, c, EOPNOTSUPP)
            /\ UNCHANGED attach_flags
       ELSE /\ th' = Finish(t, c, OK)
            /\ attach_flags' = [attach_flags EXCEPT ![c] = which]
    /\ UNCHANGED <<conn_seq_last, bus, cred, domain, flags, name_registry, conn_hash,
                   ep_conn_list, heapVars, msg_seq_last, now>>

\* kdbus_conn_kmsg_send(), lines 876-932: hand the reply to the waiting
\* caller or put the message on the destination's queue, forward it to the
\* monitors, then return or go to sleep for the reply
send_enqueue(t) ==
    /\ bug = ""
    /\ th[t].pc = "s_enqueue"
    /\ \E garbage \in Uninitialized, nomem \in MetaFail(monitors_list) :
       LET m == th[t].msg
           src == th[t].conn
           dst == th[t].dst
           rk == th[t].rk
           rw == th[t].rw
           \* reply_wake: lines 882-891
           wret == IF replies[rk].waiting /\ kdbus_conn_active(dst)
                   THEN OK ELSE ECONNRESET
           W0 == IF wret = OK
                 THEN [Cur EXCEPT !.replies[rk].queue_entry = TRUE]
                 ELSE Cur
           W == kdbus_conn_reply_unref(kdbus_conn_reply_sync(W0, rk, wret), rk)
           \* otherwise: lines 900-906
           ins == kdbus_conn_entry_insert(Cur, t, dst, src, m, rw, garbage)
           I == IF ins.ret # OK /\ rw # 0
                THEN kdbus_conn_reply_unref(ins.S, rw)
                ELSE ins.S
           ret == IF rk # 0 THEN wret ELSE ins.ret
           queued == IF rk = 0 /\ ret = OK THEN 1 ELSE 0
           D == IF rk # 0 THEN W ELSE I
       IN /\ Commit(IF ret # OK THEN D
                    ELSE kdbus_conn_eavesdrop(D, t, m, nomem, garbage))
          /\ th' = IF ret # OK
                   THEN Finish(t, src, ret)
                   ELSE IF m.sync_reply
                   THEN [th EXCEPT ![t].pc = "s_wait", ![t].rk = 0,
                                   ![t].enq = @ + queued,
                                   ![t].until = Max(m.timeout_ns, now)]
                   ELSE [Finish(t, src, OK) EXCEPT ![t].enq = @ + queued]
    /\ UNCHANGED <<connVars, msg_seq_last, now, cmds>>

\* a sleep that ends with the reply or the timeout only, whatever happens
\* to the connection of the caller
send_wait_reply_only(t) ==
    /\ bug = ""
    /\ th[t].pc = "s_wait"
    /\ LET rw == th[t].rw
           cond == ~replies[rw].waiting
           ret == IF ~cond THEN ETIMEDOUT ELSE replies[rw].err
       IN /\ cond \/ now >= th[t].until
          /\ th' = [th EXCEPT ![t].pc = "s_fin", ![t].ret = ret]
          /\ Commit(list_del_init(Cur, rw))
    /\ UNCHANGED <<connVars, msg_seq_last, now, cmds>>

\* kdbus_conn_wait_reply(), lines 675-703: the sleep ends because the
\* condition holds (r > 0) or the timeout expired (r = 0); ret is computed
\* and the tracker unlinked
send_wait(t) ==
    /\ bug = ""
    /\ th[t].pc = "s_wait"
    /\ LET rw == th[t].rw
           cond == ~replies[rw].waiting \/ ~kdbus_conn_active(th[t].conn)
           ret == IF ~cond THEN ETIMEDOUT
                  ELSE IF ~kdbus_conn_active(th[t].conn) THEN ECONNRESET
                  ELSE replies[rw].err
       IN /\ cond \/ now >= th[t].until
          /\ th' = [th EXCEPT ![t].pc = "s_fin", ![t].ret = ret]
          /\ Commit(list_del_init(Cur, rw))
    /\ UNCHANGED <<connVars, msg_seq_last, now, cmds>>

\* kdbus_conn_wait_reply(), lines 678-692: a signal ends the sleep (r < 0)
\* while the condition is false and the timeout has not expired; the
\* tracker is flagged, the worker of the destination started, and the
\* interruption returned
send_interrupted(t) ==
    /\ bug = ""
    /\ th[t].pc = "s_wait"
    /\ LET rw == th[t].rw
           cond == ~replies[rw].waiting \/ ~kdbus_conn_active(th[t].conn)
           S1 == [Cur EXCEPT !.replies[rw].interrupted = TRUE]
       IN /\ ~cond /\ now < th[t].until
          /\ Commit(schedule_delayed_work(S1, th[t].dst, 0))
    /\ th' = Finish(t, th[t].conn, EINTR)
    /\ UNCHANGED <<connVars, msg_seq_last, now, cmds>>

\* kdbus_conn_wait_reply(), lines 705-720: take the reply that was handed
\* over, if any, and drop the tracker
send_wait_finish(t) ==
    /\ bug = ""
    /\ th[t].pc = "s_fin"
    /\ LET rw == th[t].rw
           S1 == [Cur EXCEPT !.replies[rw].waiting = FALSE]
       IN Commit(kdbus_conn_reply_unref(S1, rw))
    /\ th' = Finish(t, th[t].conn, th[t].ret)
    /\ UNCHANGED <<connVars, msg_seq_last, now, cmds>>

\* the caller does not issue the interrupted call again
send_abandon(t) ==
    /\ bug = ""
    /\ th[t].pc = "idle"
    /\ th[t].restart
    /\ th' = [th EXCEPT ![t] = Idle]
    /\ UNCHANGED <<connVars, heapVars, msg_seq_last, now, cmds>>

(* ------------------------------------------------------------------ *)
(* The reply-timeout worker                                            *)
(* ------------------------------------------------------------------ *)

\* a worker that expires synchronous trackers like asynchronous ones
work_visit_every(A, c, r) ==
    LET S == A.S
        R == S.replies[r]
    IN IF R.deadline_ns > now
       THEN [A EXCEPT !.deadline =
                IF @ = -1 \/ @ > R.deadline_ns THEN R.deadline_ns ELSE @]
       ELSE LET S1 == IF R.deadline_ns # 0 /\ ~R.interrupted
                      THEN kdbus_notify_reply(S, "REPLY_TIMEOUT",
                                              R.reply_dst, R.cookie)
                      ELSE S
            IN [A EXCEPT !.S = kdbus_conn_reply_unref(list_del_init(S1, r), r)]

\* the body of the list_for_each_entry_safe() loop of kdbus_conn_work() for
\* the tracker r of connection c: [S, deadline]
work_visit(A, c, r) ==
    LET S == A.S
        R == S.replies[r]
    IN IF R.sync /\ ~R.interrupted
       THEN A
       ELSE IF R.deadline_ns > now
       THEN [A EXCEPT !.deadline =
                IF @ = -1 \/ @ > R.deadline_ns THEN R.deadline_ns ELSE @]
       ELSE LET S1 == IF R.deadline_ns # 0 /\ ~R.interrupted
                      THEN kdbus_notify_reply(S, "REPLY_TIMEOUT",
                                              R.reply_dst, R.cookie)
                      ELSE S
            IN [A EXCEPT !.S = kdbus_conn_reply_unref(list_del_init(S1, r), r)]

RECURSIVE work_loop(_, _, _)
work_loop(A, c, l) ==
    IF l = <<>> THEN A
    ELSE work_loop(work_visit(A, c, Head(l)), c, Tail(l))

\* kdbus_conn_work(): runs when the delayed work of connection c expires
kdbus_conn_work(c) ==
    /\ bug = ""
    /\ c \in Conns
    /\ work[c] # -1
    /\ now >= work[c]
    /\ LET S0 == [Cur EXCEPT !.work[c] = -1]
           A == work_loop([S |-> S0, deadline |-> -1], c, reply_list[c])
       IN IF ~kdbus_conn_active(c)
          THEN Commit(S0)
          ELSE Commit(IF A.deadline # -1
                      THEN schedule_delayed_work(A.S, c, A.deadline - now)
                      ELSE A.S)
    /\ UNCHANGED <<connVars, msg_seq_last, now, cmds, th>>

\* the clock advances
tick ==
    /\ bug = ""
    /\ now < MaxTime
    /\ now' = now + 1
    /\ UNCHANGED <<connVars, heapVars, msg_seq_last, cmds, th>>

(* ------------------------------------------------------------------ *)
(* MSG_RECV and MSG_CANCEL                                             *)
(* ------------------------------------------------------------------ *)

\* kdbus_queue_entry_peek(queue, priority, use_priority): the position of
\* the entry, 0 when there is none.  The list is kept in the order of the
\* priorities, so the entry is the head, unless the caller asks for a
\* priority that the head does not have.
kdbus_queue_entry_peek(q, priority, use_priority) ==
    IF q = <<>> \/ (use_priority /\ q[1].priority > priority) THEN 0 ELSE 1

\* kdbus_cmd_msg_recv(); mode is "recv", "peek" or "drop", use_priority is
\* KDBUS_RECV_USE_PRIORITY and priority is recv->priority
cmd_msg_recv(t, c, mode, use_priority, priority) ==
    /\ kdbus_conn_acquire(t, c)
    /\ ~th[t].restart
    /\ LET e == queue[c][1]
           found == e.reply # 0 /\ e.reply \in Range(reply_list[c])
           S1 == IF ~found THEN Cur
                 ELSE IF replies[e.reply].sync
                 THEN kdbus_conn_reply_sync(Cur, e.reply, EPIPE)
                 ELSE kdbus_notify_reply(
                          kdbus_conn_reply_unref(list_del_init(Cur, e.reply),
                                                 e.reply),
                          "REPLY_DEAD", e.src_id, e.cookie)
       IN IF kdbus_queue_entry_peek(queue[c], priority, use_priority) = 0
          THEN /\ th' = Finish(t, c, EAGAIN)
               /\ UNCHANGED heapVars
          ELSE /\ th' = Finish(t, c, OK)
               /\ CASE mode = "drop" ->
                         Commit(kdbus_queue_entry_remove(S1, c, 1))
                    [] mode = "peek" -> UNCHANGED heapVars
                    [] OTHER -> Commit(kdbus_queue_entry_remove(Cur, c, 1))
    /\ UNCHANGED <<conn_seq_last, bus, cred, domain, flags, attach_flags, name_registry,
                   conn_hash, ep_conn_list, msg_seq_last, now>>

\* kdbus_cmd_msg_recv() without KDBUS_RECV_USE_PRIORITY
kdbus_cmd_msg_recv(t, c, mode) == cmd_msg_recv(t, c, mode, FALSE, 0)

\* a cancel that also looks at the reply list of the cancelling connection
cancel_visit_self(A, conn, cookie, c) ==
    LET r == kdbus_conn_find_reply(A.S, c, conn, cookie)
    IN IF r = 0
       THEN A
       ELSE [S |-> kdbus_conn_reply_sync(A.S, r, ECANCELED), found |-> TRUE]

\* the body of the hash_for_each() loop of kdbus_cmd_msg_cancel() for the
\* connection c: [S, found]
cancel_visit(A, conn, cookie, c) ==
    LET r == kdbus_conn_find_reply(A.S, c, conn, cookie)
    IN IF c = conn \/ r = 0
       THEN A
       ELSE [S |-> kdbus_conn_reply_sync(A.S, r, ECANCELED), found |-> TRUE]

RECURSIVE cancel_loop(_, _, _, _)
cancel_loop(A, conn, cookie, cs) ==
    IF cs = {} THEN A
    ELSE LET c == CHOOSE x \in cs : \A y \in cs : x <= y
         IN cancel_loop(cancel_visit(A, conn, cookie, c), conn, cookie,
                        cs \ {c})

\* kdbus_cmd_msg_cancel(conn, cookie)
kdbus_cmd_msg_cancel(t, conn, cookie) ==
    /\ kdbus_conn_acquire(t, conn)
    /\ ~th[t].restart
    /\ LET A == cancel_loop([S |-> Cur, found |-> FALSE], conn, cookie, Hashed)
       IN IF reply_count[conn] = 0
          THEN /\ th' = Finish(t, conn, ENOENT)
               /\ UNCHANGED heapVars
          ELSE /\ Commit(A.S)
               /\ th' = Finish(t, conn, IF A.found THEN OK ELSE ENOENT)
    /\ UNCHANGED <<conn_seq_last, bus, cred, domain, flags, attach_flags, name_registry,
                   conn_hash, ep_conn_list, msg_seq_last, now>>

(* ------------------------------------------------------------------ *)
(* Moving messages between connections                                 *)
(* ------------------------------------------------------------------ *)

\* a filter that lets everything pass
name_filter_none(name_id, id) == TRUE

\* the filter of kdbus_conn_move_messages(), lines 1222 and 1229: a
\* tracker or an entry of another name stays when name_id is not 0
name_filter(name_id, id) == ~(name_id > 0 /\ id # name_id)

\* lines 1220-1226: the trackers of conn_src that pass the filter, in the
\* order of the list
moved_replies(S, c, name_id) ==
    SelectSeq(S.reply_list[c],
              LAMBDA r : name_filter(name_id, S.replies[r].name_id))

\* lines 1227-1234: the entries of conn_src that pass the filter, in the
\* order of the queue
moved_entries(S, c, name_id) ==
    SelectSeq(S.queue[c], LAMBDA e : name_filter(name_id, e.dst_name_id))

\* kdbus_conn_move_messages(), lines 1227-1234: every entry that passes the
\* filter leaves the queue of conn_src, from position i on
RECURSIVE unlink_from(_, _, _, _)
unlink_from(S, c, name_id, i) ==
    IF i > Len(S.queue[c]) THEN S
    ELSE IF name_filter(name_id, S.queue[c][i].dst_name_id)
    THEN unlink_from(kdbus_queue_entry_remove(S, c, i), c, name_id, i)
    ELSE unlink_from(S, c, name_id, i + 1)

unlink_queue(S, c, name_id) == unlink_from(S, c, name_id, 1)

\* lines 1246-1247: the trackers that were taken off conn_src are dropped
RECURSIVE unref_replies(_, _)
unref_replies(S, l) ==
    IF l = <<>> THEN S
    ELSE unref_replies(kdbus_conn_reply_unref(S, Head(l)), Tail(l))

\* lines 1251-1257: the entries are linked into the queue of conn_dst; an
\* entry that left a queue is accounted to no user
RECURSIVE link_queue(_, _)
link_queue(q, l) ==
    IF l = <<>> THEN q
    ELSE link_queue(kdbus_queue_entry_add(q, [Head(l) EXCEPT !.user = -1]),
                    Tail(l))

\* lines 1239-1262: the destination takes the messages and trackers if it
\* is active, else they are dropped: [ret, S]
move_into(S, conn_dst, msg_list, replies_moved, is_active) ==
    IF ~is_active
    THEN [ret |-> ECONNRESET, S |-> unref_replies(S, replies_moved)]
    ELSE [ret |-> OK,
          S |-> [S EXCEPT !.queue[conn_dst] = link_queue(@, msg_list),
                          !.reply_list[conn_dst] = replies_moved \o @]]

\* int kdbus_conn_move_messages(conn_dst, conn_src, name_id) on the state
\* S: [ret, S]
conn_move_messages(S, conn_dst, conn_src, name_id) ==
    LET rl == moved_replies(S, conn_src, name_id)
        ml == moved_entries(S, conn_src, name_id)
        S1 == [unlink_queue(S, conn_src, name_id) EXCEPT
                  !.reply_list[conn_src] =
                      SelectSeq(@, LAMBDA r : r \notin Range(rl))]
    IN move_into(S1, conn_dst, ml, rl, kdbus_conn_active(conn_dst))

\* int kdbus_conn_move_messages(conn_dst, conn_src, name_id), called by
\* thread t when a name changes hands between an activator and an
\* implementor
kdbus_conn_move_messages(t, conn_dst, conn_src, name_id) ==
    /\ syscall_enter(t)
    /\ ~th[t].restart
    /\ conn_dst \in Conns /\ conn_src \in Conns
    /\ conn_src # conn_dst
    /\ LET mv == conn_move_messages(Cur, conn_dst, conn_src, name_id)
       IN /\ Commit(mv.S)
          /\ th' = [th EXCEPT ![t].pc = "done", ![t].conn = conn_dst,
                              ![t].ret = mv.ret]
    /\ UNCHANGED <<connVars, msg_seq_last, now>>

(* ------------------------------------------------------------------ *)
(* The name registry                                                   *)
(* ------------------------------------------------------------------ *)

\* the number of entries and trackers a move from connection c takes
moved_count(S, c, name_id) ==
    Len(moved_entries(S, c, name_id)) + Len(moved_replies(S, c, name_id))

\* a send holds the lock of the registry from kdbus_name_lock() to
\* kdbus_name_unlock(): no name changes hands meanwhile
name_locked ==
    \E t \in Threads : /\ th[t].pc \in {"s_enqueue", "s_nolink"}
                       /\ th[t].msg.dst_name # 0

\* the entry of name n is released by its owner: the activator gets the
\* messages of the name back, or the entry goes away: [S, reg]
name_entry_release(S, reg, n) ==
    LET e == reg.entries[n]
    IN IF e.activator # 0
       THEN [S |-> conn_move_messages(S, e.activator, e.conn, e.name_id).S,
             reg |-> [reg EXCEPT !.entries[n].conn = 0]]
       ELSE [S |-> S, reg |-> [reg EXCEPT !.entries[n] = NoName]]

\* kdbus_name_remove_by_conn(reg, conn) for the names from n on: [S, reg]
RECURSIVE name_remove_from(_, _, _, _)
name_remove_from(S, reg, c, n) ==
    IF n > MaxNames THEN [S |-> S, reg |-> reg]
    ELSE LET e == reg.entries[n]
             r == IF e.name_id # 0 /\ e.conn = c
                  THEN name_entry_release(S, reg, n)
                  ELSE IF e.name_id # 0 /\ e.activator = c
                  THEN [S |-> S,
                        reg |-> IF e.conn = 0
                                THEN [reg EXCEPT !.entries[n] = NoName]
                                ELSE [reg EXCEPT !.entries[n].activator = 0]]
                  ELSE [S |-> S, reg |-> reg]
         IN name_remove_from(r.S, r.reg, c, n + 1)

\* kdbus_name_remove_by_conn(bus->name_registry, conn): [S, reg]
kdbus_name_remove_by_conn(S, reg, c) == name_remove_from(S, reg, c, 1)

\* kdbus_name_acquire(reg, conn, name, flags) without KDBUS_NAME_QUEUE and
\* without replacement, on connection c by thread t: a free name or a name
\* held by an activator only goes to the connection, which takes over the
\* messages queued for the name
kdbus_name_acquire(t, c, n) ==
    /\ kdbus_conn_acquire(t, c)
    /\ ~th[t].restart
    /\ ~name_locked
    /\ kdbus_conn_is_ordinary(c)
    /\ LET e == name_registry.entries[n]
           id == name_registry.name_seq_last + 1
       IN IF e.name_id = 0
          THEN /\ id <= MaxNameSeq
               /\ name_registry' =
                      [name_seq_last |-> id,
                       entries |-> [name_registry.entries EXCEPT ![n] =
                                       [name_id |-> id, conn |-> c,
                                        activator |-> 0]]]
               /\ th' = Finish(t, c, OK)
               /\ UNCHANGED heapVars
          ELSE IF e.conn # 0
          THEN /\ th' = Finish(t, c, IF e.conn = c THEN EALREADY ELSE EEXIST)
               /\ UNCHANGED <<heapVars, name_registry>>
          ELSE /\ name_registry' =
                      [name_registry EXCEPT !.entries[n].conn = c]
               /\ Commit(conn_move_messages(Cur, c, e.activator, e.name_id).S)
               /\ th' = [Finish(t, c, OK) EXCEPT ![t].moved =
                            moved_count(Cur, e.activator, e.name_id)]
    /\ UNCHANGED <<conn_seq_last, bus, cred, domain, flags, attach_flags, conn_hash,
                   ep_conn_list, msg_seq_last, now>>

\* kdbus_name_release(reg, conn, name) on connection c by thread t
kdbus_name_release(t, c, n) ==
    /\ kdbus_conn_acquire(t, c)
    /\ ~th[t].restart
    /\ ~name_locked
    /\ LET e == name_registry.entries[n]
           r == name_entry_release(Cur, name_registry, n)
       IN IF e.name_id = 0
          THEN /\ th' = Finish(t, c, ESRCH)
               /\ UNCHANGED <<heapVars, name_registry>>
          ELSE IF e.conn # c
          THEN /\ th' = Finish(t, c, EADDRINUSE)
               /\ UNCHANGED <<heapVars, name_registry>>
          ELSE /\ name_registry' = r.reg
               /\ Commit(r.S)
               /\ th' = [Finish(t, c, OK) EXCEPT ![t].moved =
                            IF e.activator = 0 THEN 0
                            ELSE moved_count(Cur, c, e.name_id)]
    /\ UNCHANGED <<conn_seq_last, bus, cred, domain, flags, attach_flags, conn_hash,
                   ep_conn_list, msg_seq_last, now>>

(* ------------------------------------------------------------------ *)
(* HELLO                                                               *)
(* ------------------------------------------------------------------ *)

\* kdbus_name_acquire() with KDBUS_NAME_ACTIVATOR for the new connection
\* c: a name without an activator gets c as its activator: [ret, reg]
name_acquire_activator(reg, c, n) ==
    LET e == reg.entries[n]
        id == reg.name_seq_last + 1
    IN IF e.name_id = 0
       THEN [ret |-> OK,
             reg |-> [name_seq_last |-> id,
                      entries |-> [reg.entries EXCEPT ![n] =
                                      [name_id |-> id, conn |-> 0,
                                       activator |-> c]]]]
       ELSE IF e.activator # 0
       THEN [ret |-> EEXIST, reg |-> reg]
       ELSE [ret |-> OK, reg |-> [reg EXCEPT !.entries[n].activator = c]]

\* what can fail in kdbus_conn_new() once the connection has its id:
\* kdbus_meta_new() for impersonated credentials, kdbus_domain_get_user(),
\* the quota of the user, kdbus_notify_id_change(); "" when nothing does
HelloFail == {"", "owner_meta", "get_user", "EMFILE", "notify"}

\* kdbus_bus_uid_is_privileged() for the caller of thread t
hello_privileged(t) == ThreadUid(t) = BusUidOwner \/ ns_capable(t)

\* kdbus_conn_new(), lines 1620-1626: the name of an activator
hello_acquire(f, name, id) ==
    IF KDBUS_HELLO_ACTIVATOR \in f
    THEN name_acquire_activator(name_registry, id, name)
    ELSE [ret |-> OK, reg |-> name_registry]

\* the value kdbus_conn_new() returns, lines 1495-1711
hello_ret(t, f, name, fail) ==
    IF ~hello_privileged(t) /\ f \cap {KDBUS_HELLO_ACTIVATOR,
                                       KDBUS_HELLO_POLICY_HOLDER,
                                       KDBUS_HELLO_MONITOR} # {}
    THEN EPERM
    ELSE IF hello_acquire(f, name, conn_seq_last + 1).ret # OK
    THEN hello_acquire(f, name, conn_seq_last + 1).ret
    ELSE IF fail \in {"owner_meta", "get_user"} THEN ENOMEM
    ELSE IF bus.disconnected \/ bus.ep_disconnected THEN ESHUTDOWN
    ELSE IF fail = "EMFILE" THEN EMFILE
    ELSE IF fail = "notify" THEN ENOMEM
    ELSE OK

\* kdbus_conn_new(), lines 1606-1741, without the return to the caller:
\* HELLO with the flags f, for an activator with a name, on the bus
\* endpoint.  Impersonation is for privileged callers, the quota for the
\* others.  The connection is linked into the list of monitors at line
\* 1631, into endpoint and hash at lines 1699-1700; the labels a failure
\* jumps to release the names (line 1727) and free the connection, and
\* unlink nothing
conn_new(t, f, name, fail) ==
    /\ syscall_enter(t)
    /\ ~th[t].restart
    /\ conn_seq_last < MaxConns
    /\ fail = "owner_meta" => hello_privileged(t)
    /\ fail = "EMFILE" => ~hello_privileged(t)
    /\ KDBUS_HELLO_ACTIVATOR \in f =>
          name_registry.name_seq_last < MaxNameSeq
    /\ LET id == conn_seq_last + 1
           ret == hello_ret(t, f, name, fail)
           acq == hello_acquire(f, name, id)
           named == ret # EPERM /\ acq.ret = OK
           monitor == named /\ KDBUS_HELLO_MONITOR \in f
           linked == named /\ ret \in {OK, ENOMEM}
                     /\ fail \notin {"owner_meta", "get_user"}
           mons == IF monitor THEN Append(bus.monitors_list, id)
                   ELSE bus.monitors_list
           eps == IF linked THEN Append(ep_conn_list, id) ELSE ep_conn_list
       IN IF ret = EPERM
          THEN UNCHANGED <<conn_seq_last, active, bus, cred, flags,
                           name_registry, attach_flags, conn_hash,
                           ep_conn_list>>
          ELSE /\ conn_seq_last' = id
               /\ active' = [active EXCEPT ![id] = 0]
               /\ cred' = [cred EXCEPT ![id] = ThreadUid(t)]
               /\ flags' = [flags EXCEPT ![id] = f]
               /\ attach_flags' = [attach_flags EXCEPT ![id] = {}]
               /\ ep_conn_list' = eps
               /\ conn_hash' =
                      IF linked
                      THEN [conn_hash EXCEPT ![BucketOf(id)] = @ \cup {id}]
                      ELSE conn_hash
               /\ bus' = [bus EXCEPT
                             !.monitors_list = mons,
                             !.freed = IF ret = OK THEN @ ELSE @ \cup {id}]
               /\ name_registry' =
                      IF named /\ ret # OK
                      THEN kdbus_name_remove_by_conn(Cur, acq.reg, id).reg
                      ELSE acq.reg
    /\ UNCHANGED <<heapVars, domain, msg_seq_last, now>>

\* kdbus_conn_new(): a new ordinary connection on the bus endpoint
kdbus_conn_new(t) ==
    /\ \E f \in SUBSET {KDBUS_HELLO_ACCEPT_FD} : conn_new(t, f, 1, "")
    /\ UNCHANGED th

\* KDBUS_CMD_HELLO: kdbus_conn_new() and its return to the caller
kdbus_cmd_hello(t, f, name, fail) ==
    /\ conn_new(t, f, name, fail)
    /\ th' = [th EXCEPT ![t] =
                 [Idle EXCEPT !.pc = "done", !.cmd = "hello",
                              !.ret = hello_ret(t, f, name, fail),
                              !.conn = IF hello_ret(t, f, name, fail) = EPERM
                                       THEN 0 ELSE conn_seq_last + 1]]

(* ------------------------------------------------------------------ *)
(* Disconnect                                                          *)
(* ------------------------------------------------------------------ *)

\* a disconnect that tears an inactive connection down once more
disconnect_begin_again(t, c, ensure_queue_empty) ==
    /\ syscall_enter(t)
    /\ ~th[t].restart
    /\ c \in Conns
    /\ IF ensure_queue_empty /\ queue[c] # <<>>
       THEN /\ th' = [th EXCEPT ![t].pc = "done", ![t].conn = c,
                                ![t].ret = EBUSY]
            /\ UNCHANGED active
       ELSE /\ th' = [th EXCEPT ![t].pc = "d_wait", ![t].conn = c]
            /\ active' = [active EXCEPT ![c] =
                              IF @ >= 0 THEN @ + KDBUS_CONN_ACTIVE_BIAS ELSE @]
    /\ UNCHANGED <<conn_seq_last, bus, cred, domain, flags, attach_flags, name_registry,
                   conn_hash, ep_conn_list, heapVars, msg_seq_last, now>>

\* a disconnect that does not look at the queue
disconnect_begin_any_queue(t, c, ensure_queue_empty) ==
    /\ syscall_enter(t)
    /\ ~th[t].restart
    /\ c \in Conns
    /\ IF ~kdbus_conn_active(c)
       THEN /\ th' = [th EXCEPT ![t].pc = "done", ![t].conn = c,
                                ![t].ret = EALREADY]
            /\ UNCHANGED active
       ELSE /\ th' = [th EXCEPT ![t].pc = "d_wait", ![t].conn = c]
            /\ active' = [active EXCEPT ![c] = @ + KDBUS_CONN_ACTIVE_BIAS]
    /\ UNCHANGED <<conn_seq_last, bus, cred, domain, flags, attach_flags, name_registry,
                   conn_hash, ep_conn_list, heapVars, msg_seq_last, now>>

\* kdbus_conn_disconnect(), lines 960-974: BYEBYE passes
\* ensure_queue_empty, the endpoint teardown does not
disconnect_begin(t, c, ensure_queue_empty) ==
    /\ syscall_enter(t)
    /\ ~th[t].restart
    /\ c \in Conns
    /\ IF ~kdbus_conn_active(c)
       THEN /\ th' = [th EXCEPT ![t].pc = "done", ![t].conn = c,
                                ![t].ret = EALREADY]
            /\ UNCHANGED active
       ELSE IF ensure_queue_empty /\ queue[c] # <<>>
       THEN /\ th' = [th EXCEPT ![t].pc = "done", ![t].conn = c,
                                ![t].ret = EBUSY]
            /\ UNCHANGED active
       ELSE /\ th' = [th EXCEPT ![t].pc = "d_wait", ![t].conn = c]
            /\ active' = [active EXCEPT ![c] = @ + KDBUS_CONN_ACTIVE_BIAS]
    /\ UNCHANGED <<conn_seq_last, bus, cred, domain, flags, attach_flags, name_registry,
                   conn_hash, ep_conn_list, heapVars, msg_seq_last, now>>

\* a disconnect that proceeds as soon as the bias is on the counter
disconnect_ignores_holders(c) == active[c] < 0

\* the condition of wait_event() in kdbus_conn_disconnect()
disconnect_may_proceed(c) == active[c] = KDBUS_CONN_ACTIVE_BIAS

\* the queue drain of kdbus_conn_disconnect(), lines 1012-1020
RECURSIVE drain_queue(_, _)
drain_queue(S, c) ==
    IF S.queue[c] = <<>> THEN S
    ELSE LET e == S.queue[c][1]
             S1 == IF e.reply # 0
                   THEN kdbus_notify_reply(S, "REPLY_DEAD", e.src_id, e.cookie)
                   ELSE S
         IN drain_queue(kdbus_queue_entry_remove(S1, c, 1), c)

\* kdbus_conn_disconnect(), lines 982-1022: once no active reference is
\* left, stop the worker, unlink the connection from bus and endpoint,
\* drain the queue and take the reply list over
disconnect_teardown(t) ==
    /\ bug = ""
    /\ th[t].pc = "d_wait"
    /\ LET c == th[t].conn
           nm == kdbus_name_remove_by_conn([Cur EXCEPT !.work[c] = -1],
                                           name_registry, c)
           S1 == drain_queue(nm.S, c)
       IN
        /\ disconnect_may_proceed(c)
        /\ ~name_locked
        /\ conn_hash' = hash_del(conn_hash, c)
        /\ ep_conn_list' = Remove(ep_conn_list, c)
        /\ bus' = [bus EXCEPT !.monitors_list = Remove(@, c)]
        /\ name_registry' = nm.reg
        /\ Commit([S1 EXCEPT !.splice[t] = S1.reply_list[c],
                             !.reply_list[c] = <<>>])
    /\ th' = [th EXCEPT ![t].pc = "d_replies"]
    /\ UNCHANGED <<conn_seq_last, active, cred, domain, flags, attach_flags,
                   msg_seq_last, now, cmds>>

\* a walk that sends the notification for every tracker
walk_visit_notify(S, r) ==
    LET R == S.replies[r]
        S1 == kdbus_notify_reply(S, "REPLY_DEAD", R.reply_dst, R.cookie)
    IN IF R.sync
       THEN kdbus_conn_reply_sync(S1, r, EPIPE)
       ELSE kdbus_conn_reply_unref(list_del_init(S1, r), r)

\* the body of the walk of the spliced reply list, lines 1025-1035
walk_visit(S, r) ==
    LET R == S.replies[r]
    IN IF R.sync
       THEN kdbus_conn_reply_sync(S, r, EPIPE)
       ELSE kdbus_conn_reply_unref(
                list_del_init(
                    kdbus_notify_reply(S, "REPLY_DEAD", R.reply_dst, R.cookie),
                    r), r)

\* the walk of the spliced reply list, lines 1024-1036
RECURSIVE walk_replies(_, _)
walk_replies(S, l) ==
    IF l = <<>> THEN S
    ELSE walk_replies(walk_visit(S, Head(l)), Tail(l))

\* kdbus_conn_disconnect(), lines 1024-1043
disconnect_replies(t) ==
    /\ bug = ""
    /\ th[t].pc = "d_replies"
    /\ Commit(walk_replies(Cur, splice[t]))
    /\ th' = [th EXCEPT ![t].pc = IF th[t].caller = "" THEN "done"
                                                         ELSE th[t].caller,
                        ![t].ret = OK]
    /\ UNCHANGED <<connVars, msg_seq_last, now, cmds>>

(* ------------------------------------------------------------------ *)
(* Specification                                                       *)
(* ------------------------------------------------------------------ *)

\* the commands on connections of a bus
Next ==
    \/ \E t \in Threads, c \in ConnIds : acquire_fail(t, c)
    \/ \E t \in Threads : kdbus_conn_release(t)
    \/ \E t \in Threads : syscall_return(t)
    \/ \E t \in Threads, c \in ConnIds, m \in Msgs : send_begin(t, c, m)
    \/ \E t \in Threads : reply_new_fail(t)
    \/ \E t \in Threads : send_enqueue(t)
    \/ \E t \in Threads : send_wait(t)
    \/ \E t \in Threads : send_interrupted(t)
    \/ \E t \in Threads : send_wait_finish(t)
    \/ \E t \in Threads : send_abandon(t)
    \/ \E c \in ConnIds : kdbus_conn_work(c)
    \/ tick
    \/ \E t \in Threads, c \in ConnIds, mode \in {"recv", "peek", "drop"} :
           kdbus_cmd_msg_recv(t, c, mode)
    \/ \E t \in Threads, c \in ConnIds, k \in Cookies :
           kdbus_cmd_msg_cancel(t, c, k)
    \/ \E t \in Threads, c \in ConnIds, e \in BOOLEAN :
           disconnect_begin(t, c, e)
    \/ \E t \in Threads : disconnect_teardown(t)
    \/ \E t \in Threads : disconnect_replies(t)

Spec == Init /\ [][Next]_vars

\* the life of connections from HELLO to disconnect, without messages
NextLife ==
    \/ \E t \in Threads : kdbus_conn_new(t)
    \/ \E t \in Threads, c \in ConnIds : acquire_fail(t, c)
    \/ \E t \in Threads : kdbus_conn_release(t)
    \/ \E t \in Threads : syscall_return(t)
    \/ \E t \in Threads, c \in ConnIds, mode \in {"recv", "peek", "drop"} :
           kdbus_cmd_msg_recv(t, c, mode)
    \/ \E t \in Threads, c \in ConnIds, k \in Cookies :
           kdbus_cmd_msg_cancel(t, c, k)
    \/ \E t \in Threads, c \in ConnIds, e \in BOOLEAN :
           disconnect_begin(t, c, e)
    \/ \E t \in Threads : disconnect_teardown(t)
    \/ \E t \in Threads : disconnect_replies(t)

SpecLife == InitBus /\ [][NextLife]_vars

\* the messages of a behaviour that loads the queue of the connection with
\* the highest id: no caller sleeps
LoadMsgs == {m \in Msgs : ~m.sync_reply /\ m.dst_id = MaxConns}

\* senders and receivers that load the queues of the connections of a bus
NextLoad ==
    \/ \E t \in Threads : kdbus_conn_release(t)
    \/ \E t \in Threads, c \in ConnIds, m \in LoadMsgs : send_begin(t, c, m)
    \/ \E t \in Threads : reply_new_fail(t)
    \/ \E t \in Threads : send_enqueue(t)
    \/ \E c \in ConnIds : kdbus_conn_work(c)
    \/ \E t \in Threads, c \in ConnIds, mode \in {"recv", "peek", "drop"} :
           kdbus_cmd_msg_recv(t, c, mode)

SpecLoad == InitLoad /\ [][NextLoad]_vars

\* the priorities of the messages of a behaviour that looks at the order
\* of the queue
MaxPriority == 1

\* messages of several priorities, from every sender to the connection
\* with the highest id; none expects a reply
OrderMsgs ==
    {[m EXCEPT !.priority = p] :
        m \in {x \in LoadMsgs : ~x.expect_reply}, p \in 0 .. MaxPriority}

\* senders and receivers of messages of several priorities
NextOrder ==
    \/ \E t \in Threads : kdbus_conn_release(t)
    \/ \E t \in Threads, c \in ConnIds, m \in OrderMsgs : send_begin(t, c, m)
    \/ \E t \in Threads : send_enqueue(t)
    \/ \E t \in Threads, c \in ConnIds, mode \in {"recv", "peek", "drop"},
          u \in BOOLEAN, p \in 0 .. MaxPriority :
           cmd_msg_recv(t, c, mode, u, p)

SpecOrder == InitLoad /\ [][NextOrder]_vars

\* plain messages to the connection with the highest id
ByeMsgs == {m \in LoadMsgs : ~m.expect_reply}

\* senders, receivers and disconnects (BYEBYE and the teardown of the
\* endpoint) of connections with loaded queues
NextBye ==
    \/ \E t \in Threads, c \in ConnIds : acquire_fail(t, c)
    \/ \E t \in Threads : kdbus_conn_release(t)
    \/ \E t \in Threads : syscall_return(t)
    \/ \E t \in Threads, c \in ConnIds, m \in ByeMsgs : send_begin(t, c, m)
    \/ \E t \in Threads : send_enqueue(t)
    \/ \E t \in Threads, c \in ConnIds, mode \in {"recv", "peek", "drop"} :
           kdbus_cmd_msg_recv(t, c, mode)
    \/ \E t \in Threads, c \in ConnIds, e \in BOOLEAN :
           disconnect_begin(t, c, e)
    \/ \E t \in Threads : disconnect_teardown(t)
    \/ \E t \in Threads : disconnect_replies(t)

SpecBye == InitBye /\ [][NextBye]_vars

\* the connection that thread t made with HELLO
OwnConn(t) == IF t = "t1" THEN 1 ELSE MaxConns

\* every thread sends on its own connection to the connection with the
\* highest id, which is disconnected, and messages move between the
\* connections
NextReset ==
    \/ \E t \in Threads, c \in ConnIds : acquire_fail(t, c)
    \/ \E t \in Threads : kdbus_conn_release(t)
    \/ \E t \in Threads : syscall_return(t)
    \/ \E t \in Threads, m \in LoadMsgs : send_begin(t, OwnConn(t), m)
    \/ \E t \in Threads : reply_new_fail(t)
    \/ \E t \in Threads : send_enqueue(t)
    \/ \E t \in Threads, e \in BOOLEAN : disconnect_begin(t, MaxConns, e)
    \/ \E t \in Threads : disconnect_teardown(t)
    \/ \E t \in Threads : disconnect_replies(t)
    \/ \E t \in Threads, d \in ConnIds, c \in ConnIds :
           kdbus_conn_move_messages(t, d, c, 0)

SpecReset == InitBye /\ [][NextReset]_vars

\* commands of a behaviour in which a name changes hands
MaxMoveCmds == 5

\* a bus with the activator of name 1 (connection 1) and an ordinary
\* connection, both made by the owner of the bus
InitName ==
    /\ conn_seq_last = MaxConns
    /\ active = [c \in ConnIds |-> 0]
    /\ cred = [c \in ConnIds |-> BusUidOwner]
    /\ flags = [c \in ConnIds |->
                   IF c = 1 THEN {KDBUS_HELLO_ACTIVATOR}
                            ELSE {KDBUS_HELLO_ACCEPT_FD}]
    /\ conn_hash = [b \in 0 .. HashBuckets - 1 |->
                       {c \in 1 .. MaxConns : BucketOf(c) = b}]
    /\ ep_conn_list = [i \in 1 .. MaxConns |-> i]
    /\ name_registry =
           [name_seq_last |-> 1,
            entries |-> [n \in Names |->
                            IF n = 1 THEN [name_id |-> 1, conn |-> 0,
                                           activator |-> 1]
                                     ELSE NoName]]
    /\ attach_flags = [c \in ConnIds |-> {}]
    /\ bus = NoBus
    /\ InitHeap

InitMove == InitName /\ cmds = MaxMoveCmds

\* a message as it is sent to the well-known name n
ToName(m, n) == [m EXCEPT !.dst_id = KDBUS_DST_ID_NAME, !.dst_name = n]

\* calls and plain messages of several priorities, to the connection with
\* the highest id and to name 1; no caller sleeps
MoveMsgs ==
    LET base == {[m EXCEPT !.priority = p] :
                    m \in LoadMsgs,
                    p \in 0 .. MaxPriority}
    IN base \cup {ToName(m, 1) : m \in base}

\* one thread of the process of the connection with the highest id sends
\* to the connection itself and to name 1, the other one takes the name
\* from the activator and gives it back
NextMove ==
    \/ \E t \in Threads : kdbus_conn_release(t)
    \/ \E m \in MoveMsgs : send_begin("t2", MaxConns, m)
    \/ \E t \in Threads : send_enqueue(t)
    \/ \E n \in Names : kdbus_name_acquire("t1", MaxConns, n)
    \/ \E n \in Names : kdbus_name_release("t1", MaxConns, n)

SpecMove == InitMove /\ [][NextMove]_vars

\* commands of a behaviour in which messages are sent to a name
MaxNameCmds == 5

InitNames == InitName /\ cmds = MaxNameCmds

\* plain messages to name 1, with and without a destination id and
\* KDBUS_MSG_FLAGS_NO_AUTO_START
NameMsgs ==
    {[ToName(m, 1) EXCEPT !.dst_id = d, !.no_auto_start = f] :
        m \in ByeMsgs, d \in {KDBUS_DST_ID_NAME} \cup (1 .. MaxConns),
        f \in BOOLEAN}

\* one thread sends to name 1 on the connection with the highest id, the
\* other one lets that connection take the name and give it back, and
\* disconnects the activator
NextNames ==
    \/ \E t \in Threads : kdbus_conn_release(t)
    \/ \E t \in Threads : syscall_return(t)
    \/ \E m \in NameMsgs : send_begin("t2", MaxConns, m)
    \/ \E t \in Threads : send_enqueue(t)
    \/ \E n \in Names : kdbus_name_acquire("t1", MaxConns, n)
    \/ \E n \in Names : kdbus_name_release("t1", MaxConns, n)
    \/ \E e \in BOOLEAN : disconnect_begin("t1", 1, e)
    \/ \E t \in Threads : disconnect_teardown(t)
    \/ \E t \in Threads : disconnect_replies(t)

SpecNames == InitNames /\ [][NextNames]_vars

\* commands of a behaviour in which messages have several receivers
MaxCastCmds == 3

\* a bus with three connections made by the owner of the bus: an ordinary
\* one that sends, and two that are ordinary connections or monitors (the
\* last one can also be an activator or a policy holder), each with the
\* attach flags it chose at HELLO
InitCast ==
    /\ conn_seq_last = MaxPeers
    /\ active = [c \in ConnIds |-> 0]
    /\ cred = [c \in ConnIds |-> BusUidOwner]
    /\ flags \in [ConnIds -> {{KDBUS_HELLO_ACCEPT_FD}, {KDBUS_HELLO_MONITOR},
                              {KDBUS_HELLO_ACTIVATOR},
                              {KDBUS_HELLO_POLICY_HOLDER}}]
    /\ flags[1] = {KDBUS_HELLO_ACCEPT_FD}
    /\ \A c \in ConnIds \ {1, MaxPeers} :
          flags[c] \in {{KDBUS_HELLO_ACCEPT_FD}, {KDBUS_HELLO_MONITOR}}
    /\ attach_flags \in [ConnIds -> SUBSET Items]
    /\ attach_flags[1] = {}
    /\ \A c \in ConnIds : ~kdbus_conn_is_ordinary(c) /\ ~kdbus_conn_is_monitor(c)
                           => attach_flags[c] = {}
    /\ conn_hash = [b \in 0 .. HashBuckets - 1 |->
                       {c \in ConnIds : BucketOf(c) = b}]
    /\ ep_conn_list = [i \in 1 .. MaxPeers |-> i]
    /\ name_registry = NoNames
    /\ bus = [NoBus EXCEPT !.monitors_list =
                               SelectSeq(ep_conn_list, kdbus_conn_is_monitor)]
    /\ InitHeap
    /\ cmds = MaxCastCmds

\* plain messages to connections 1 and 2, and broadcasts
CastMsgs ==
    {[m EXCEPT !.dst_id = d] :
        m \in ByeMsgs, d \in {1, 2, KDBUS_DST_ID_BROADCAST}}

\* one thread sends messages and broadcasts on connection 1, the other
\* one changes the attach flags of the other connections and disconnects
\* the last one
NextCast ==
    \/ \E t \in Threads : kdbus_conn_release(t)
    \/ \E t \in Threads : syscall_return(t)
    \/ \E m \in CastMsgs : send_begin("t1", 1, m)
    \/ \E t \in Threads : send_enqueue(t)
    \/ \E m \in CastMsgs, nomatch \in SUBSET (ConnIds \ {1}),
          nomem \in ConnIds \cup {0} :
           kdbus_conn_broadcast("t1", 1, m, nomatch, nomem)
    \/ \E c \in ConnIds \ {1}, which \in SUBSET Items :
           kdbus_cmd_conn_update("t2", c, which)
    \/ \E e \in BOOLEAN : disconnect_begin("t2", MaxPeers, e)
    \/ \E t \in Threads : disconnect_teardown(t)
    \/ \E t \in Threads : disconnect_replies(t)

SpecCast == InitCast /\ [][NextCast]_vars

\* number of file descriptors a message carries at most
MaxFds == 1

\* synchronous calls, replies and plain messages, with and without file
\* descriptors
FdMsgs ==
    {[m EXCEPT !.fds_count = f] :
        m \in {x \in Msgs : x.expect_reply => x.sync_reply},
        f \in 0 .. MaxFds}

\* senders and receivers of messages that carry file descriptors, on
\* connections that accept them and on connections that do not
NextFd ==
    \/ \E t \in Threads : kdbus_conn_release(t)
    \/ \E t \in Threads, c \in ConnIds, m \in FdMsgs : send_begin(t, c, m)
    \/ \E t \in Threads : send_enqueue(t)
    \/ \E t \in Threads : send_wait(t)
    \/ \E t \in Threads : send_wait_finish(t)
    \/ \E t \in Threads, c \in ConnIds, mode \in {"recv", "peek", "drop"} :
           kdbus_cmd_msg_recv(t, c, mode)

SpecFd == InitFd /\ [][NextFd]_vars

(* ------------------------------------------------------------------ *)
(* Disconnect under fair scheduling                                    *)
(* ------------------------------------------------------------------ *)

\* system calls of a behaviour with synchronous senders and disconnects
MaxFairCmds == 3

InitFair == InitConns /\ flags = AcceptAll /\ cmds = MaxFairCmds

\* requests whose sender sleeps until the reply
SyncMsgs == {m \in Msgs : m.sync_reply}

\* the steps a thread takes inside a system call once it has entered it,
\* and the worker
Inside ==
    \/ \E t \in Threads : kdbus_conn_release(t)
    \/ \E t \in Threads : syscall_return(t)
    \/ \E t \in Threads : reply_new_fail(t)
    \/ \E t \in Threads : send_enqueue(t)
    \/ \E t \in Threads : send_wait(t)
    \/ \E t \in Threads : send_wait_finish(t)
    \/ \E t \in Threads : disconnect_teardown(t)
    \/ \E t \in Threads : disconnect_replies(t)
    \/ \E c \in ConnIds : kdbus_conn_work(c)

\* one thread sends and the other one disconnects; system calls are
\* entered, signals arrive and time passes at will
NextFair ==
    \/ Inside
    \/ \E t \in Threads, c \in ConnIds : acquire_fail(t, c)
    \/ \E c \in ConnIds, m \in SyncMsgs : send_begin("t1", c, m)
    \/ \E t \in Threads : send_interrupted(t)
    \/ \E t \in Threads : send_abandon(t)
    \/ tick
    \/ \E c \in ConnIds, e \in BOOLEAN : disconnect_begin("t2", c, e)

\* a thread that can take a step inside the kernel takes one in the end;
\* nothing is assumed about when a timeout expires
SpecFair == InitFair /\ [][NextFair]_vars /\ WF_vars(Inside)

(* ------------------------------------------------------------------ *)
(* Domain: buses, users and their counters (bus.c, connection.c)       *)
(* ------------------------------------------------------------------ *)

\* limits.h is not part of the sources; the limits are scaled down so that
\* the model reaches them
KDBUS_USER_MAX_BUSES == 1
KDBUS_USER_MAX_CONN == 1

\* system calls of a behaviour that makes and frees buses and connections
MaxDomainCmds == 4

\* the terminating byte of a string
NUL == ""

\* names a caller passes to kdbus_bus_new(), as strings of characters
BusNames == {<<"1", "-", "a">>, <<"1", "0", "-", "a">>, <<"1", "a">>,
             <<>>}

\* the character of a decimal digit
Digit(d) == <<"0", "1", "2", "3", "4", "5", "6", "7", "8", "9">>[d + 1]

\* "%u" of snprintf()
RECURSIVE Decimal(_)
Decimal(u) ==
    IF u < 10 THEN <<Digit(u)>>
    ELSE Decimal(u \div 10) \o <<Digit(u % 10)>>

\* snprintf(prefix, sizeof(prefix), "%u-", uid)
snprintf_prefix(uid) == Decimal(uid) \o <<"-">>

\* the i-th byte of the string s
CharAt(s, i) == IF i <= Len(s) THEN s[i] ELSE NUL

strlen(s) == Len(s)

\* strncmp(a, b, n), from byte i on: 0 when the strings are equal in
\* their first n bytes, 1 when they differ
RECURSIVE strncmp_from(_, _, _, _)
strncmp_from(a, b, n, i) ==
    IF i > n THEN 0
    ELSE IF CharAt(a, i) # CharAt(b, i) THEN 1
    ELSE IF CharAt(a, i) = NUL THEN 0
    ELSE strncmp_from(a, b, n, i + 1)

strncmp(a, b, n) == strncmp_from(a, b, n, 1)

strcmp(a, b) == IF a = b THEN 0 ELSE 1

\* the int value of a comparison in C
BoolInt(b) == IF b THEN 1 ELSE 0

\* kdbus_bus_new(), lines 287-291: the name does not pass the test of
\* the prefix
bad_prefix(name, uid) ==
    LET prefix == snprintf_prefix(uid)
    IN strncmp(name, prefix, BoolInt(strlen(prefix) # 0)) # 0

\* kdbus_bus_find(domain, name): some bus of the list has the name
kdbus_bus_find(name) ==
    \E i \in 1 .. Len(domain.bus_list) :
        strcmp(domain.bus_list[i].name, name) = 0

\* kdbus_domain_get_user(domain, uid): the users with a reference to the
\* object of uid more; the object is made when there is none
kdbus_domain_get_user(users, uid) ==
    [users EXCEPT ![uid].kref = @ + 1]

\* kdbus_domain_user_unref(u): the object is freed with its last
\* reference
kdbus_domain_user_unref(users, uid) ==
    IF users[uid].kref = 1
    THEN [users EXCEPT ![uid] = NoUser]
    ELSE [users EXCEPT ![uid].kref = @ - 1]

\* s without its i-th element
RemoveAt(s, i) == SubSeq(s, 1, i - 1) \o SubSeq(s, i + 1, Len(s))

\* kdbus_bus_new(), lines 283-357, called by thread t for a device node
\* of uid, with or without CAP_IPC_OWNER: the test of the prefix, the
\* lookup of the name and the allocations
kdbus_bus_new_find(t, uid, capable, name, nomem) ==
    /\ bug = ""
    /\ cmds > 0
    /\ cmds' = cmds - 1
    /\ domain.make[t].pc = "idle"
    /\ LET ret == IF bad_prefix(name, uid) THEN EINVAL
                  ELSE IF kdbus_bus_find(name) THEN EEXIST
                  ELSE IF nomem THEN ENOMEM
                  ELSE OK
       IN domain' = [domain EXCEPT !.make[t] =
                        [pc |-> IF ret = OK THEN "link" ELSE "idle",
                         name |-> IF ret = OK THEN name ELSE <<>>,
                         uid |-> IF ret = OK THEN uid ELSE 0,
                         capable |-> ret = OK /\ capable,
                         ret |-> ret]]
    /\ UNCHANGED busVars

\* kdbus_bus_new(), lines 358-381: under domain->lock the bus is
\* accounted to the user and linked into the list of the domain
kdbus_bus_new_link(t) ==
    /\ bug = ""
    /\ domain.make[t].pc = "link"
    /\ LET mk == domain.make[t]
           got == kdbus_domain_get_user(domain.users, mk.uid)
           count == ~mk.capable
           over == count /\ got[mk.uid].buses + 1 > KDBUS_USER_MAX_BUSES
           id == domain.bus_seq_last + 1
       IN domain' =
            IF over
            THEN [domain EXCEPT
                     !.users = kdbus_domain_user_unref(got, mk.uid),
                     !.make[t] = [NoMake EXCEPT !.ret = EMFILE]]
            ELSE [domain EXCEPT
                     !.users = IF count
                               THEN [got EXCEPT ![mk.uid].buses = @ + 1]
                               ELSE got,
                     !.bus_seq_last = id,
                     !.bus_list = Append(@, [id |-> id, name |-> mk.name,
                                             uid_owner |-> mk.uid,
                                             counted |-> count]),
                     !.make[t] = NoMake]
    /\ UNCHANGED <<busVars, cmds>>

\* kdbus_bus_disconnect() and __kdbus_bus_free() of the i-th bus of the
\* list, which has no connections any more
kdbus_bus_free(i) ==
    /\ bug = ""
    /\ cmds > 0
    /\ cmds' = cmds - 1
    /\ i \in 1 .. Len(domain.bus_list)
    /\ LET b == domain.bus_list[i]
           dec == [domain.users EXCEPT ![b.uid_owner].buses = @ - 1]
       IN /\ \A k \in 1 .. Len(domain.conns) : domain.conns[k].bus # b.id
          /\ domain' = [domain EXCEPT
                           !.bus_list = RemoveAt(@, i),
                           !.users = kdbus_domain_user_unref(dec,
                                                             b.uid_owner)]
    /\ UNCHANGED busVars

\* kdbus_conn_new(), lines 1666-1731, of a caller with fsuid uid on the
\* i-th bus of the list: the connection is accounted to the user and
\* linked; notify_fail says that kdbus_notify_id_change() fails
kdbus_conn_new_account(uid, capable, i, notify_fail) ==
    /\ bug = ""
    /\ cmds > 0
    /\ cmds' = cmds - 1
    /\ i \in 1 .. Len(domain.bus_list)
    /\ LET b == domain.bus_list[i]
           got == kdbus_domain_get_user(domain.users, uid)
           count == ~(capable \/ b.uid_owner = uid)
           over == count /\ got[uid].connections + 1 > KDBUS_USER_MAX_CONN
           inc == IF count
                  THEN [got EXCEPT ![uid].connections = @ + 1]
                  ELSE got
           dec == [inc EXCEPT ![uid].connections = @ - 1]
       IN domain' =
            IF over
            THEN [domain EXCEPT
                     !.users = kdbus_domain_user_unref(got, uid)]
            ELSE IF notify_fail
            THEN [domain EXCEPT
                     !.users = kdbus_domain_user_unref(dec, uid)]
            ELSE [domain EXCEPT
                     !.users = inc,
                     !.conns = Append(@, [bus |-> b.id, user |-> uid,
                                          counted |-> count])]
    /\ UNCHANGED busVars

\* __kdbus_conn_free() of the k-th connection
kdbus_conn_free(k) ==
    /\ bug = ""
    /\ cmds > 0
    /\ cmds' = cmds - 1
    /\ k \in 1 .. Len(domain.conns)
    /\ LET c == domain.conns[k]
           dec == [domain.users EXCEPT ![c.user].connections = @ - 1]
       IN domain' = [domain EXCEPT
                        !.conns = RemoveAt(@, k),
                        !.users = kdbus_domain_user_unref(dec, c.user)]
    /\ UNCHANGED busVars

\* a domain without buses
InitDomain ==
    /\ conn_seq_last = 0
    /\ active = [c \in ConnIds |-> 0]
    /\ cred = [c \in ConnIds |-> ""]
    /\ flags = [c \in ConnIds |-> {}]
    /\ conn_hash = [b \in 0 .. HashBuckets - 1 |-> {}]
    /\ ep_conn_list = <<>>
    /\ InitRest
    /\ cmds = MaxDomainCmds

\* buses are made by two threads and freed, connections made and freed
NextDomain ==
    \/ \E t \in Threads, uid \in DomainUids, capable \in BOOLEAN,
          name \in BusNames, nomem \in BOOLEAN :
           kdbus_bus_new_find(t, uid, capable, name, nomem)
    \/ \E t \in Threads : kdbus_bus_new_link(t)
    \/ \E i \in 1 .. Len(domain.bus_list) : kdbus_bus_free(i)
    \/ \E uid \in DomainUids, capable \in BOOLEAN,
          i \in 1 .. Len(domain.bus_list), notify_fail \in BOOLEAN :
           kdbus_conn_new_account(uid, capable, i, notify_fail)
    \/ \E k \in 1 .. Len(domain.conns) : kdbus_conn_free(k)

SpecDomain == InitDomain /\ [][NextDomain]_vars

(* ------------------------------------------------------------------ *)
(* Properties: active references and the bus hash                      *)
(* ------------------------------------------------------------------ *)

\* positions at which a thread holds an active reference of th[t].conn
Holding == {"release", "s_nolink", "s_enqueue", "s_wait", "s_fin"}

\* C1: once the bias is on the counter of a connection, no command that
\* takes an active reference gets one: a thread that enters a command on
\* that connection returns at once, with ECONNRESET (EALREADY when the
\* command is another disconnect), and the counter does not go up
C1_AcquireAfterBias ==
    [][\A c \in ConnIds :
          active[c] < 0 =>
              /\ active'[c] <= active[c]
              /\ \A t \in Threads :
                    (th[t].pc = "idle" /\ th'[t].pc # "idle"
                        /\ th'[t].conn = c) =>
                        /\ th'[t].pc = "done"
                        /\ th'[t].ret \in {ECONNRESET, EALREADY}
                        /\ active'[c] = active[c]]_vars

\* C1, its case: a command was refused on a connection that carries the bias
C1_Witness ==
    \E t \in Threads :
        /\ th[t].pc = "done"
        /\ th[t].ret = ECONNRESET
        /\ active[th[t].conn] < 0

\* C2: a connection that disconnect has started to tear down (it is out of
\* the bus hash) has a counter of exactly the bias, and no thread holds an
\* active reference of it
C2_TeardownAfterLastRelease ==
    \A c \in Conns :
        c \notin Hashed =>
            /\ active[c] = KDBUS_CONN_ACTIVE_BIAS
            /\ \A t \in Threads :
                  th[t].pc \in Holding => th[t].conn # c

\* C2, its case: a disconnect waits because a thread still holds an active
\* reference, and the connection is still in the hash
C2_Witness ==
    \E t, u \in Threads :
        /\ th[t].pc = "d_wait"
        /\ th[u].pc \in Holding
        /\ th[u].conn = th[t].conn
        /\ active[th[t].conn] = KDBUS_CONN_ACTIVE_BIAS + 1
        /\ th[t].conn \in Hashed

\* C3 as stated: a connection is in the bus hash exactly when it is active
C3_HashedIffActive ==
    \A c \in Conns : c \in Hashed <=> kdbus_conn_active(c)

\* C3: every active connection is in exactly one bucket of the hash, the
\* one of its id; a connection that is in the hash and not active is one
\* whose disconnect has put the bias on the counter and still waits for
\* the active references; a connection that disconnect has unlinked is in
\* no bucket and not active
C3_HashMembership ==
    \A c \in Conns :
        /\ kdbus_conn_active(c) =>
              {b \in DOMAIN conn_hash : c \in conn_hash[b]} = {BucketOf(c)}
        /\ (c \in Hashed /\ ~kdbus_conn_active(c)) =>
              \E t \in Threads : th[t].pc = "d_wait" /\ th[t].conn = c
        /\ (\E t \in Threads :
               /\ th[t].conn = c
               /\ \/ th[t].pc = "d_replies"
                  \/ th[t].pc = "done" /\ th[t].ret = OK) =>
              c \notin Hashed /\ ~kdbus_conn_active(c)

\* C3, its case: a disconnect has returned and the connection left the hash
\* while another connection is active and hashed
C3_Witness ==
    \E t \in Threads, c \in Conns :
        /\ th[t].pc = "done" /\ th[t].ret = OK
        /\ th[t].conn \notin Hashed
        /\ c \in Hashed /\ kdbus_conn_active(c)

(* ------------------------------------------------------------------ *)
(* Properties: reply trackers                                          *)
(* ------------------------------------------------------------------ *)

\* the trackers that are allocated
Live == {r \in ReplyIds : ~replies[r].free}

\* the connections on whose reply list the tracker r is linked
OnList(r) == {c \in ConnIds : r \in Range(reply_list[c])}

C5_SecondReplyRejected ==
    [][\A t \in Threads, src \in ConnIds, m \in Msgs :
          (/\ ~m.expect_reply
           /\ <<m.dst_id, src, m.cookie_reply>> \in answered
           /\ kdbus_conn_find_reply(Cur, src, m.dst_id, m.cookie_reply) = 0
           /\ send_begin(t, src, m)) =>
              th'[t].pc = "release" /\ th'[t].ret # OK]_vars

\* C5: a message with a cookie_reply that matches a tracker on the sender's
\* reply list passes the access check whatever the policy says, and takes
\* the tracker off the list, so that it authorizes one message only; a
\* message with a cookie_reply that matches no tracker (a second reply) is
\* an ordinary message: it passes exactly when the talk policy lets the
\* sender talk to the destination, and is rejected with EPERM otherwise
C5_ReplyAccess ==
    [][\A t \in Threads, src \in ConnIds, m \in Msgs :
          (/\ ~m.expect_reply
           /\ kdbus_bus_find_conn_by_id(m.dst_id) # 0
           /\ send_begin(t, src, m)) =>
              LET r == kdbus_conn_find_reply(Cur, src, m.dst_id, m.cookie_reply)
              IN IF r # 0
                 THEN /\ th'[t].pc = "s_enqueue"
                      /\ th'[t].rk = IF replies[r].sync THEN r ELSE 0
                      /\ \A c \in ConnIds : r \notin Range(reply_list'[c])
                      /\ <<m.dst_id, src, m.cookie_reply>> \in answered'
                 ELSE IF \/ BusUidOwner = cred[src]
                         \/ cred[src] = cred[m.dst_id]
                 THEN /\ th'[t].pc = "s_enqueue"
                      /\ th'[t].rk = 0
                      /\ UNCHANGED heapVars
                 ELSE /\ th'[t].pc = "release"
                      /\ th'[t].ret = EPERM
                      /\ UNCHANGED heapVars]_vars

\* C5, its case: a reply has consumed the tracker of a call, and a second
\* message with the same cookie_reply from the same replier has passed the
\* access check
C5_Witness ==
    \E t \in Threads :
        /\ th[t].pc = "s_enqueue"
        /\ ~th[t].msg.expect_reply
        /\ th[t].rk = 0
        /\ <<th[t].msg.dst_id, th[t].conn, th[t].msg.cookie_reply>> \in answered
        /\ \E i \in DOMAIN queue[th[t].msg.dst_id] :
              /\ queue[th[t].msg.dst_id][i].src_id = th[t].conn
              /\ queue[th[t].msg.dst_id][i].cookie_reply =
                     th[t].msg.cookie_reply

\* C6 as stated: the request of a synchronous call is put on the queue of
\* the destination once at most, however often the call is issued again
\* after it was interrupted
C6_AtMostOneEnqueue == \A t \in Threads : th[t].enq <= 1

\* C7 as stated: when a synchronous call has timed out (its tracker is off
\* the list the worker scans), a ReplyTimeout notification for it has been
\* sent to the caller
C7_TimedOutAndNotified ==
    \A t \in Threads :
        (th[t].pc = "s_fin" /\ th[t].ret = ETIMEDOUT) =>
            notify[<<"REPLY_TIMEOUT", th[t].conn, th[t].msg.cookie>>] >= 1

\* C7: the sleep of a synchronous call ends with ETIMEDOUT exactly when it
\* ends with the tracker still waiting and the caller's connection active,
\* which happens only once the deadline has passed, and this sends no
\* notification; a ReplyTimeout notification is sent only when the worker
\* takes an asynchronous tracker whose deadline has passed off a list
C7_TimedOutNoNotification ==
    [][/\ \A t \in Threads :
             (th[t].pc = "s_wait" /\ th'[t].pc = "s_fin") =>
                 /\ th'[t].ret = ETIMEDOUT <=>
                       (replies[th[t].rw].waiting
                           /\ kdbus_conn_active(th[t].conn))
                 /\ th'[t].ret = ETIMEDOUT => now >= th[t].until
                 /\ notify' = notify
       /\ \A k \in NotifyKeys :
             (k[1] = "REPLY_TIMEOUT" /\ notify'[k] # notify[k]) =>
                 \E r \in Live :
                     /\ ~replies[r].sync
                     /\ replies[r].reply_dst = k[2]
                     /\ replies[r].cookie = k[3]
                     /\ replies[r].deadline_ns <= now
                     /\ OnList(r) # {}
                     /\ \A c \in ConnIds : r \notin Range(reply_list'[c])]_vars

\* C7, its case: a synchronous call has timed out and no ReplyTimeout
\* notification was sent for it
C7_Witness ==
    \E t \in Threads :
        /\ th[t].pc = "s_fin"
        /\ th[t].ret = ETIMEDOUT
        /\ now >= th[t].until
        /\ notify[<<"REPLY_TIMEOUT", th[t].conn, th[t].msg.cookie>>] = 0

\* number of ReplyDead notifications the queue drain of connection c sends
\* for the call k = <<type, caller, cookie>>
DrainDead(c, k) ==
    Cardinality({i \in DOMAIN queue[c] :
                    /\ queue[c][i].reply # 0
                    /\ queue[c][i].src_id = k[2]
                    /\ queue[c][i].cookie = k[3]})

\* number of ReplyDead notifications the walk of the list l sends for k
WalkDead(l, k) ==
    Cardinality({i \in DOMAIN l :
                    /\ ~replies[l[i]].sync
                    /\ replies[l[i]].reply_dst = k[2]
                    /\ replies[l[i]].cookie = k[3]})

\* C8 as stated: when a disconnect walks over the tracker of a sleeping
\* caller, the caller is woken with EPIPE and a ReplyDead notification for
\* the call was sent
C8_BrokenPipeAndReplyDead ==
    [][\A t, u \in Threads :
          (/\ th[u].pc = "s_wait"
           /\ th[u].rw \in Range(splice[t])
           /\ disconnect_replies(t)) =>
              /\ replies'[th[u].rw].err = EPIPE
              /\ notify'[<<"REPLY_DEAD", th[u].conn, th[u].msg.cookie>>] >= 1]_vars

\* C8: the disconnect of a connection wakes every synchronous tracker on
\* its reply list with EPIPE, without a notification; the caller that then
\* ends its sleep on an active connection returns the error of the
\* tracker; ReplyDead notifications are sent for the requests that are
\* still in the queue of the connection when it is drained, and for the
\* asynchronous trackers on its reply list, and for nothing else
C8_DisconnectWakes ==
    [][\A t \in Threads :
          /\ disconnect_teardown(t) =>
                \A k \in NotifyKeys :
                    notify'[k] = notify[k] +
                        (IF k[1] = "REPLY_DEAD"
                         THEN DrainDead(th[t].conn, k) ELSE 0)
          /\ disconnect_replies(t) =>
                /\ \A r \in Range(splice[t]) :
                      replies[r].sync =>
                          /\ ~replies'[r].free
                          /\ ~replies'[r].waiting
                          /\ replies'[r].err = EPIPE
                /\ \A k \in NotifyKeys :
                      notify'[k] = notify[k] +
                          (IF k[1] = "REPLY_DEAD"
                           THEN WalkDead(splice[t], k) ELSE 0)
          /\ (/\ th[t].pc = "s_wait" /\ th'[t].pc = "s_fin"
              /\ ~replies[th[t].rw].waiting
              /\ kdbus_conn_active(th[t].conn)) =>
                th'[t].ret = replies[th[t].rw].err]_vars

\* C8, its case: a caller was woken with EPIPE by the disconnect of the
\* destination, which had the request still in its queue, so that a
\* ReplyDead notification was sent as well
C8_Witness ==
    \E t, u \in Threads :
        /\ th[u].pc = "s_fin" /\ th[u].ret = EPIPE
        /\ th[t].pc = "done" /\ th[t].ret = OK
        /\ th[t].conn = th[u].msg.dst_id
        /\ notify[<<"REPLY_DEAD", th[u].conn, th[u].msg.cookie>>] = 1

\* C9 as stated: MSG_CANCEL on a connection wakes every caller that sleeps
\* in a synchronous call of this connection with the cookie to another
\* connection, with ECANCELED, and takes the tracker off the reply list
C9_CancelWakesEveryCaller ==
    [][\A t, u \in Threads, conn \in ConnIds, k \in Cookies :
          (/\ th[u].pc = "s_wait"
           /\ th[u].conn = conn
           /\ th[u].msg.cookie = k
           /\ th[u].msg.dst_id # conn
           /\ th[u].rw \in Range(reply_list[th[u].msg.dst_id])
           /\ kdbus_cmd_msg_cancel(t, conn, k)) =>
              /\ bug' = ""
              /\ ~replies'[th[u].rw].waiting
              /\ replies'[th[u].rw].err = ECANCELED
              /\ \A c \in ConnIds : th[u].rw \notin Range(reply_list'[c])]_vars

\* the trackers on reply lists that wait for a reply to (conn, cookie)
Outstanding(conn, cookie) ==
    {r \in Live : /\ OnList(r) # {}
                  /\ replies[r].reply_dst = conn
                  /\ replies[r].cookie = cookie}

QueuedBy(c, u) ==
    Cardinality({i \in DOMAIN queue[c] : UserIdr(queue[c][i].src_id) = u})

\* thread t puts its message on the queue of the destination in this step
\* (it neither hands a reply over to a sleeping caller nor fails)
Enqueues(t) ==
    /\ th[t].pc = "s_enqueue"
    /\ th[t].rk = 0
    /\ Len(queue'[th[t].msg.dst_id]) = Len(queue[th[t].msg.dst_id]) + 1

\* thread t fails to put its message on the queue, with ENOBUFS
Refused(t) ==
    /\ th[t].pc = "s_enqueue"
    /\ th'[t].pc = "release"
    /\ th'[t].ret = ENOBUFS
    /\ queue' = queue

\* C11 as stated: no queue holds more than KDBUS_CONN_MAX_MSGS_PER_USER
\* entries of one user (no sender has CAP_IPC_OWNER)
C11_PerUserQuota ==
    \A c \in Conns, u \in {0, 1} :
        QueuedBy(c, u) <= KDBUS_CONN_MAX_MSGS_PER_USER

\* C12 as stated: when a user sends to a connection whose queue holds
\* messages of this user only, the message is queued while the queue holds
\* fewer than KDBUS_CONN_MAX_MSGS_PER_USER of them, and refused with
\* ENOBUFS when it holds that many
C12_FloodRefused ==
    [][\A t \in Threads :
          LET dst == th[t].msg.dst_id
              u == UserIdr(th[t].conn)
          IN (/\ th[t].pc = "s_enqueue" /\ th'[t].pc # "s_enqueue"
              /\ th[t].rk = 0
              /\ kdbus_conn_active(dst)
              /\ QueuedBy(dst, u) = Len(queue[dst])) =>
                 IF Len(queue[dst]) < KDBUS_CONN_MAX_MSGS_PER_USER
                 THEN Enqueues(t)
                 ELSE Len(queue[dst]) = KDBUS_CONN_MAX_MSGS_PER_USER =>
                          Refused(t)]_vars

\* C13 as stated: no queue holds more than KDBUS_CONN_MAX_MSGS entries,
\* and the message of a user who has fewer than
\* KDBUS_CONN_MAX_MSGS_PER_USER entries in a queue that holds fewer than
\* KDBUS_CONN_MAX_MSGS is queued, however many the other user has there
C13_AggregateQuota ==
    /\ [](\A c \in Conns : Len(queue[c]) <= KDBUS_CONN_MAX_MSGS)
    /\ [][\A t \in Threads :
            LET dst == th[t].msg.dst_id
                u == UserIdr(th[t].conn)
            IN (/\ th[t].pc = "s_enqueue" /\ th'[t].pc # "s_enqueue"
                /\ th[t].rk = 0
                /\ kdbus_conn_active(dst)
                /\ QueuedBy(dst, u) < KDBUS_CONN_MAX_MSGS_PER_USER
                /\ Len(queue[dst]) < KDBUS_CONN_MAX_MSGS) =>
                   Enqueues(t)]_vars

(* ------------------------------------------------------------------ *)
(* Properties: pending requests                                        *)
(* ------------------------------------------------------------------ *)

\* the unresolved calls of connection c: the trackers that are allocated
\* and name c as reply_dst
Unresolved(c) == {r \in Live : replies[r].reply_dst = c}

\* C14 as stated: while no kdbus_conn_reply_new() is between its increment
\* and its decrement, reply_count is the number of unresolved calls of the
\* connection, which is at most KDBUS_CONN_MAX_REQUESTS_PENDING; a call
\* that is allowed by the policy fails with EMLINK exactly when the caller
\* has that many unresolved calls; a call that cannot be put on the queue
\* leaves the counter as it found it and no tracker on a list
C14_PendingRequests ==
    /\ [](\A c \in Conns :
             (\A t \in Threads : th[t].pc # "s_nolink") =>
                 /\ reply_count[c] = Cardinality(Unresolved(c))
                 /\ reply_count[c] <= KDBUS_CONN_MAX_REQUESTS_PENDING)
    /\ [][\A t \in Threads :
            /\ (/\ th[t].pc = "idle"
                /\ th'[t].pc \in {"s_nolink", "s_enqueue"}
                /\ th'[t].msg.expect_reply) =>
                   ((th'[t].pc = "s_nolink" /\ th'[t].ret = EMLINK)
                       <=> Cardinality(Unresolved(th'[t].conn)) >=
                               KDBUS_CONN_MAX_REQUESTS_PENDING)
            /\ (/\ th[t].pc = "s_enqueue" /\ th[t].rw # 0
                /\ th'[t].pc = "release" /\ th'[t].ret # OK) =>
                   /\ replies'[th[t].rw].free
                   /\ reply_count'[th[t].conn] = reply_count[th[t].conn] - 1
                   /\ reply_list' = reply_list]_vars

(* ------------------------------------------------------------------ *)
(* Properties: order of delivery                                       *)
(* ------------------------------------------------------------------ *)

\* the entries of the priority p in the queue q, in the order of the queue
PrioSeq(q, p) == SelectSeq(q, LAMBDA e : e.priority = p)

\* C15: among the entries of one priority, a queue changes only by a new
\* entry behind all of them (a send), by the removal of the first of them
\* (MSG_RECV takes the entry it returns, or drops it) or by the removal of
\* all entries (disconnect): the messages of equal priority leave a queue
\* in the order in which they were put on it
C15_Fifo ==
    [][\A c \in ConnIds, p \in 0 .. MaxPriority :
          LET a == PrioSeq(queue[c], p)
              b == PrioSeq(queue'[c], p)
          IN \/ b = a
             \/ Len(b) = Len(a) + 1 /\ SubSeq(b, 1, Len(a)) = a
             \/ a # <<>> /\ b = Tail(a)
             \/ queue'[c] = <<>>]_vars

\* C15, its case: a queue holds messages of two senders and of equal
\* priority behind a message of lower priority value, and a receiver has
\* taken a message off its head
C15_Witness ==
    \E c \in ConnIds, t \in Threads :
        /\ Len(queue[c]) >= 3
        /\ queue[c][1].priority < queue[c][2].priority
        /\ queue[c][2].priority = queue[c][3].priority
        /\ queue[c][2].src_id # queue[c][3].src_id
        /\ th[t].pc = "release" /\ th[t].ret = OK /\ th[t].conn = c
        /\ th[t].enq = 0

(* ------------------------------------------------------------------ *)
(* Message sequence numbers                                            *)
(* ------------------------------------------------------------------ *)

\* the sequence numbers of the kmsgs that are being sent
SeqInFlight == {th[t].seq : t \in Threads} \ {0}

\* C16: every send gets a sequence number larger than every number that
\* was assigned before it, so no two sends, concurrent or one after the
\* other, share a number; the number of a kmsg is assigned once and does
\* not change while the kmsg lives; the counter of the domain never
\* decreases and is at least every number that was assigned.
C16_SequenceNumbers ==
    /\ [](\A t \in Threads :
            /\ th[t].seq <= msg_seq_last
            /\ \A u \in Threads \ {t} : th[t].seq # 0 => th[t].seq # th[u].seq)
    /\ [][/\ msg_seq_last' >= msg_seq_last
          /\ \A t \in Threads :
                /\ th'[t].seq \notin {0, th[t].seq} =>
                      /\ th[t].seq = 0
                      /\ th'[t].seq > msg_seq_last
                      /\ th'[t].seq = msg_seq_last'
                      /\ \A n \in SeqInFlight : th'[t].seq > n
                /\ (th[t].pc = "idle" /\ th'[t].msg # NoMsg
                      /\ th'[t].pc # "idle") => th'[t].seq > msg_seq_last]_vars

\* two sends are in progress at once, and a send that began after an
\* earlier one had returned carries a number that is larger by two
C16_Witness ==
    /\ Cardinality(SeqInFlight) = 2
    /\ msg_seq_last >= 3

(* ------------------------------------------------------------------ *)
(* Properties: disconnect                                              *)
(* ------------------------------------------------------------------ *)

\* C17: BYEBYE on an active connection whose queue is not empty returns
\* EBUSY and changes nothing of the connection: it stays active and in the
\* bus hash and on the endpoint's list, its queue and reply list and
\* every other object of the bus are as before.  BYEBYE on an active
\* connection whose queue is empty is not refused: it puts the bias on
\* the counter, and the call that did so returns 0 after the teardown.
C17_ByeByeBusy ==
    [][\A t \in Threads :
         /\ \A c \in ConnIds :
              (disconnect_begin(t, c, TRUE) /\ kdbus_conn_active(c)) =>
                 IF queue[c] # <<>>
                 THEN /\ th'[t].pc = "done"
                      /\ th'[t].ret = EBUSY
                      /\ kdbus_conn_active(c)'
                      /\ UNCHANGED <<connVars, heapVars>>
                 ELSE /\ th'[t].pc = "d_wait"
                      /\ active'[c] = active[c] + KDBUS_CONN_ACTIVE_BIAS
         /\ (th[t].pc = "d_replies" /\ th'[t].pc # "d_replies") =>
                 (th'[t].pc = "done" /\ th'[t].ret = OK)]_vars

\* one thread was refused with EBUSY on a connection, and after the queue
\* was emptied another thread has disconnected the same connection
C17_Witness ==
    \E t, u \in Threads :
        /\ th[t].pc = "done" /\ th[t].ret = EBUSY
        /\ th[u].pc = "done" /\ th[u].ret = OK
        /\ th[u].conn = th[t].conn
        /\ msg_seq_last > 0

\* the threads that are tearing connection c down
TearingDown(c) ==
    {t \in Threads : th[t].conn = c /\ th[t].pc \in {"d_wait", "d_replies"}}

\* C18: a connection is torn down at most once.  The bias is put on the
\* counter of a connection at most once and never taken off, by a call that
\* found the connection active; at most one thread at a time is in the
\* teardown of a connection, and only a call that went through the
\* teardown returns 0.  A disconnect of a connection that is not active
\* returns EALREADY and changes nothing.
C18_TornDownOnce ==
    /\ [](\A c \in ConnIds :
            /\ active[c] >= KDBUS_CONN_ACTIVE_BIAS
            /\ Cardinality(TearingDown(c)) <= 1
            /\ TearingDown(c) # {} => ~kdbus_conn_active(c))
    /\ [][\A c \in ConnIds :
            /\ ~kdbus_conn_active(c) => ~kdbus_conn_active(c)'
            /\ \A t \in Threads :
                 /\ \A e \in BOOLEAN :
                      (disconnect_begin(t, c, e) /\ ~kdbus_conn_active(c)) =>
                          /\ th'[t].pc = "done"
                          /\ th'[t].ret = EALREADY
                          /\ UNCHANGED <<connVars, heapVars>>
                 /\ (t \in TearingDown(c)' /\ t \notin TearingDown(c)) =>
                          kdbus_conn_active(c)
                 /\ (th'[t].pc = "done" /\ th'[t].ret = OK
                       /\ th'[t].conn = c /\ th[t].pc # "done") =>
                          (th[t].pc = "d_replies" /\ t \in TearingDown(c))]_vars

\* a disconnect of a connection has returned 0 and another one, issued
\* while the first was in progress or after it, has returned EALREADY
C18_Witness ==
    \E t, u \in Threads :
        /\ th[t].pc = "done" /\ th[t].ret = OK
        /\ th[u].pc = "done" /\ th[u].ret = EALREADY
        /\ th[u].conn = th[t].conn

(* ------------------------------------------------------------------ *)
(* Properties: connections that are not active                         *)
(* ------------------------------------------------------------------ *)

\* thread t leaves kdbus_conn_entry_insert() on a connection that is not
\* active
InsertOnInactive(t) ==
    /\ th[t].pc = "s_enqueue"
    /\ th'[t].pc # "s_enqueue"
    /\ th[t].rk = 0
    /\ ~kdbus_conn_active(th[t].msg.dst_id)

\* C19 as stated: every insert into the queue of a connection that is not
\* active fails with ECONNRESET.
C19_ResetOnInactive ==
    [][\A t \in Threads : InsertOnInactive(t) => th'[t].ret = ECONNRESET]_vars

\* C19 amended: no step adds an entry to the queue or a tracker to the
\* reply list of a connection that is not active.  An insert into the
\* queue of such a connection fails, with ENOBUFS if the queue holds more
\* than KDBUS_CONN_MAX_MSGS entries and with ECONNRESET otherwise, and the
\* tracker of the call is dropped; a move of messages onto such a
\* connection fails with ECONNRESET.  Once the disconnect has unlinked a
\* connection, its queue and its reply list are empty and stay empty.
C19_NothingAddedWhenInactive ==
    /\ [](\A c \in Conns :
            c \notin Hashed => (queue[c] = <<>> /\ reply_list[c] = <<>>))
    /\ [][\A c \in ConnIds :
            /\ ~kdbus_conn_active(c) =>
                  /\ Len(queue'[c]) <= Len(queue[c])
                  /\ Range(reply_list'[c]) \subseteq Range(reply_list[c])
            /\ \A t \in Threads :
                 /\ (InsertOnInactive(t) /\ th[t].msg.dst_id = c) =>
                      /\ th'[t].ret =
                            IF Len(queue[c]) > KDBUS_CONN_MAX_MSGS
                            THEN ENOBUFS ELSE ECONNRESET
                      /\ th[t].rw # 0 => replies'[th[t].rw].free
                 /\ \A s \in ConnIds :
                      (kdbus_conn_move_messages(t, c, s, 0)
                         /\ ~kdbus_conn_active(c)) =>
                          /\ th'[t].ret = ECONNRESET
                          /\ queue'[c] = queue[c]
                          /\ reply_list'[c] = reply_list[c]]_vars

\* a send onto a connection that is not active was refused with
\* ECONNRESET, and the connection holds messages that were queued before
C19_Witness ==
    \E t \in Threads :
        /\ th[t].pc = "release"
        /\ th[t].ret = ECONNRESET
        /\ ~kdbus_conn_active(MaxConns)
        /\ queue[MaxConns] # <<>>

(* ------------------------------------------------------------------ *)
(* Properties: file descriptors                                        *)
(* ------------------------------------------------------------------ *)

\* thread t delivers, or fails to deliver, a message with file
\* descriptors to a connection that did not pass KDBUS_HELLO_ACCEPT_FD
FdsToRefusing(t) ==
    /\ th[t].pc = "s_enqueue"
    /\ th'[t].pc # "s_enqueue"
    /\ th[t].msg.fds_count > 0
    /\ KDBUS_HELLO_ACCEPT_FD \notin flags[th[t].msg.dst_id]

\* C20: a message with file descriptors for a connection that did not opt
\* in is refused with ECOMM and is not delivered, neither to the queue of
\* the connection nor, as a synchronous reply, to its waiting caller.
C20_FdsRefused ==
    [][\A t \in Threads :
         FdsToRefusing(t) =>
            /\ th'[t].ret = ECOMM
            /\ queue'[th[t].msg.dst_id] = queue[th[t].msg.dst_id]
            /\ th[t].rk # 0 =>
                  (replies'[th[t].rk].free
                     \/ ~replies'[th[t].rk].queue_entry)]_vars

(* ------------------------------------------------------------------ *)
(* Properties: names                                                   *)
(* ------------------------------------------------------------------ *)

\* the entries of a queue that are addressed to the name with id name_id
ForName(q, name_id) == SelectSeq(q, LAMBDA e : e.dst_name_id = name_id)

\* the entries of a queue that are not addressed to it
NotForName(q, name_id) == SelectSeq(q, LAMBDA e : e.dst_name_id # name_id)

\* an entry without its quota accounting
Unaccounted(q) == [i \in DOMAIN q |-> [q[i] EXCEPT !.user = -1]]

\* a is a subsequence of b
RECURSIVE IsSubSeq(_, _)
IsSubSeq(a, b) ==
    IF a = <<>> THEN TRUE
    ELSE IF b = <<>> THEN FALSE
    ELSE IF Head(a) = Head(b) THEN IsSubSeq(Tail(a), Tail(b))
    ELSE IsSubSeq(a, Tail(b))

\* how often x occurs in sequence q
Count(q, x) == Cardinality({i \in DOMAIN q : q[i] = x})

\* a step in which thread t moves the messages of the name with id name_id
\* from src to dst: the step of an implementor that takes the name from
\* its activator, or gives it back
MoveStep(t, dst, src, name_id) ==
    \E n \in Names :
       LET e == name_registry.entries[n]
       IN /\ e.name_id = name_id
          /\ \/ /\ e.conn = 0 /\ e.activator = src
                /\ kdbus_name_acquire(t, dst, n)
             \/ /\ e.conn = src /\ e.activator = dst
                /\ kdbus_name_release(t, src, n)

\* C21: a move of the messages of a name (name_id > 0) to an active
\* connection takes every queue entry and every tracker of that name from
\* the source to the destination, none lost or duplicated, the entries in
\* the order they had among each other and the trackers too; entries and
\* trackers of any other name id stay on the source unchanged, and what
\* the destination held stays there
C21_MoveByName ==
    [][\A t \in Threads, dst \in ConnIds, src \in ConnIds,
          name_id \in 1 .. MaxNameSeq :
          (/\ name_registry' # name_registry
           /\ kdbus_conn_active(dst)
           /\ MoveStep(t, dst, src, name_id)) =>
            LET M == Unaccounted(ForName(queue[src], name_id))
                RM == SelectSeq(reply_list[src],
                                LAMBDA r : replies[r].name_id = name_id)
                Q == Unaccounted(queue'[dst])
            IN /\ queue'[src] = NotForName(queue[src], name_id)
               /\ IsSubSeq(M, Q)
               /\ IsSubSeq(Unaccounted(queue[dst]), Q)
               /\ Len(Q) = Len(queue[dst]) + Len(M)
               /\ \A i \in DOMAIN Q :
                     Count(Q, Q[i]) =
                        Count(Unaccounted(queue[dst]), Q[i]) + Count(M, Q[i])
               /\ reply_list'[dst] = RM \o reply_list[dst]
               /\ reply_list'[src] =
                     SelectSeq(reply_list[src],
                               LAMBDA r : replies[r].name_id # name_id)
               /\ replies' = replies]_vars

\* C21 witness: the implementor has given name 1 back to its activator:
\* two entries of different priorities and a tracker of the name have
\* gone to the activator, an entry that was sent to the id stays
C21_Witness ==
    \E t \in Threads :
        /\ th[t].pc = "release" /\ th[t].ret = OK
        /\ th[t].moved >= 3
        /\ name_registry.entries[1].conn = 0
        /\ \E i, j \in DOMAIN queue[1] :
              /\ queue[1][i].priority # queue[1][j].priority
              /\ queue[1][i].dst_name_id = 1 /\ queue[1][j].dst_name_id = 1
        /\ \E r \in Range(reply_list[1]) : replies[r].name_id = 1
        /\ \E i \in DOMAIN queue[MaxConns] :
              queue[MaxConns][i].dst_name_id = 0

\* the one connection that receives the messages to the name of entry e:
\* the implementor if there is one, else the activator
Receiver(e) == IF e.conn # 0 THEN e.conn ELSE e.activator

\* thread t is in a send to a name, past the lookup
SendingToName(t) ==
    th[t].pc = "s_enqueue" /\ th[t].msg.dst_name # 0

\* C22: a message to a name goes to the implementor of the name whenever
\* there is one and to the activator only when there is none: a send that
\* has looked the name up delivers to exactly that connection, with the
\* name id of the entry, and to the activator never with
\* KDBUS_MSG_FLAGS_NO_AUTO_START; a send by name only with that flag
\* fails with EADDRNOTAVAIL when an activator alone holds the name, and
\* nothing is queued
C22_OneReceiver ==
    /\ [](\A t \in Threads :
            SendingToName(t) =>
               LET e == name_registry.entries[th[t].msg.dst_name]
               IN /\ e.name_id # 0
                  /\ th[t].msg.dst_name_id = e.name_id
                  /\ th[t].dst = Receiver(e)
                  /\ th[t].msg.no_auto_start =>
                        ~kdbus_conn_is_activator(th[t].dst))
    /\ [][\A t \in Threads :
            LET m == th'[t].msg
                d == th[t].dst
            IN /\ (SendingToName(t) /\ send_enqueue(t)) =>
                     /\ \A c \in ConnIds \ {d} : queue'[c] = queue[c]
                     /\ th'[t].ret = OK => Len(queue'[d]) = Len(queue[d]) + 1
               /\ \A sm \in NameMsgs :
                     (/\ send_begin(t, MaxConns, sm)
                      /\ sm.dst_id = KDBUS_DST_ID_NAME /\ sm.no_auto_start
                      /\ name_registry.entries[sm.dst_name].name_id # 0
                      /\ name_registry.entries[sm.dst_name].conn = 0) =>
                        /\ th'[t].ret = EADDRNOTAVAIL
                        /\ th'[t].pc = "release"
                        /\ UNCHANGED heapVars]_vars

\* C22 witness: the name has an implementor and a live activator, and the
\* lookup of a send to the name has chosen the implementor
C22_Witness ==
    \E t \in Threads :
        LET e == name_registry.entries[1]
        IN /\ SendingToName(t)
           /\ e.conn # 0 /\ e.activator # 0
           /\ kdbus_conn_active(e.activator)
           /\ th[t].dst = e.conn

\* C23: a send that gives a name and a destination id other than the id
\* of the connection that holds the name (its implementor, or its
\* activator when it has no implementor) fails with EREMCHG, queues
\* nothing and creates no tracker, whatever the state of the name entry
C23_NameChanged ==
    [][\A t \in Threads, sm \in NameMsgs :
          LET e == name_registry.entries[sm.dst_name]
          IN (/\ send_begin(t, MaxConns, sm)
              /\ e.name_id # 0
              /\ sm.dst_id # KDBUS_DST_ID_NAME
              /\ sm.dst_id # Receiver(e)) =>
                /\ th'[t].pc = "release"
                /\ th'[t].ret = EREMCHG
                /\ UNCHANGED heapVars]_vars

(* ------------------------------------------------------------------ *)
(* Properties: messages with several receivers                         *)
(* ------------------------------------------------------------------ *)

\* the step of thread t puts its message on the queue of the destination
\* and the send goes on without an error
Delivered(t) ==
    /\ th[t].pc = "s_enqueue"
    /\ send_enqueue(t)
    /\ th[t].rk = 0
    /\ th'[t].enq = th[t].enq + 1

\* kdbus_conn_entry_insert() of message m on connection c, called without
\* a sender, has nothing to refuse
Accepts(t, c, m) ==
    \A garbage \in Uninitialized :
        kdbus_conn_entry_insert(Cur, t, c, 0, m, 0, garbage).ret = OK

\* C24: when a send has put its message on the queue of the destination,
\* every monitor of the bus has been offered a copy: the queue of each
\* monitor that has nothing to refuse is one entry longer; and whatever
\* happens at the monitors, the destination has its entry and the sender
\* no error
C24_MonitorsSeeAll ==
    [][\A t \in Threads :
          Delivered(t) =>
             /\ \A c \in Range(monitors_list) :
                   Accepts(t, c, th[t].msg) =>
                      Len(queue'[c]) = Len(queue[c]) + 1
             /\ Len(queue'[th[t].dst]) = Len(queue[th[t].dst]) + 1
             /\ th'[t].ret = OK]_vars

\* connection c is a receiver of the broadcast m that thread t sends on
\* src, and kdbus_conn_entry_insert() has nothing to refuse
Eligible(t, src, c, m, nomatch) ==
    /\ c # src
    /\ kdbus_conn_is_ordinary(c) \/ kdbus_conn_is_monitor(c)
    /\ c \notin nomatch
    /\ kdbus_ep_policy_check_broadcast(t, src, c) = OK
    /\ \A garbage \in Uninitialized :
          kdbus_conn_entry_insert(Cur, t, c, src, m, 0, garbage).ret = OK

\* C25: a broadcast returns 0; every connection that is eligible for it
\* and at which nothing fails has one more entry afterwards, whatever
\* failed at another receiver (the append of the metadata included); the
\* sender, the activators and the policy holders get nothing
C25_BroadcastToAll ==
    [][\A t \in Threads, m \in CastMsgs, nomatch \in SUBSET ConnIds,
         nomem \in ConnIds \cup {0} :
          kdbus_conn_broadcast(t, 1, m, nomatch, nomem) =>
             /\ th'[t].ret = OK
             /\ \A c \in ConnIds \ {nomem} :
                   Eligible(t, 1, c, m, nomatch) =>
                      Len(queue'[c]) = Len(queue[c]) + 1
             /\ \A c \in ConnIds :
                   (\/ c = 1 \/ kdbus_conn_is_activator(c)
                    \/ kdbus_conn_is_policy_holder(c)) =>
                      queue'[c] = queue[c]]_vars

\* the queue of connection c is one entry longer after the step
Grew(c) == Len(queue'[c]) = Len(queue[c]) + 1

\* the entry at the tail of the queue of connection c after the step
NewEntry(c) == queue'[c][Len(queue'[c])]

\* the connections of list l up to connection c
Upto(l, c) == {l[i] : i \in {j \in 1 .. Len(l) : \E k \in j .. Len(l) : l[k] = c}}

\* the items the connections of cs ask for
Asked(cs) == UNION {attach_flags[k] : k \in cs}

\* the step of thread t is a broadcast of connection 1
Broadcasts(t) ==
    /\ th[t].pc = "idle"
    /\ th'[t].pc = "release"
    /\ msg_seq_last' # msg_seq_last
    /\ \E m \in CastMsgs, nomatch \in SUBSET ConnIds,
          nomem \in ConnIds \cup {0} :
           kdbus_conn_broadcast(t, 1, m, nomatch, nomem)

\* C26: a message to one connection carries exactly the items of the
\* attach flags the destination has when the send attaches the metadata,
\* so none that a CONN_UPDATE has cleared before; a copy for a monitor or
\* for a receiver of a broadcast carries the items of that connection's
\* attach flags and no items other than those and the ones asked for by
\* the connections the message was prepared for before it
C26_OwnItemsAndEarlier ==
    [][\A t \in Threads :
          /\ (th[t].pc # "s_enqueue" /\ th'[t].pc = "s_enqueue") =>
                th'[t].msg.meta = attach_flags[th'[t].dst]
          /\ Delivered(t) =>
                /\ NewEntry(th[t].dst).meta = th[t].msg.meta
                /\ \A c \in Range(monitors_list) :
                      Grew(c) =>
                         /\ attach_flags[c] \subseteq NewEntry(c).meta
                         /\ NewEntry(c).meta \subseteq
                               th[t].msg.meta
                                  \cup Asked(Upto(monitors_list, c))
          /\ Broadcasts(t) =>
                \A c \in ConnIds :
                   Grew(c) =>
                      /\ attach_flags[c] \subseteq NewEntry(c).meta
                      /\ NewEntry(c).meta \subseteq
                            Asked(Upto(hash_for_each(0), c) \ {1})]_vars

\* C26 witness: connection 2 has cleared its attach flags after it got a
\* message with the timestamp, and a message to it that was sent
\* afterwards is about to be queued without the item
C26_Witness ==
    \E t \in Threads :
        /\ th[t].pc = "s_enqueue"
        /\ th[t].dst = 2
        /\ th[t].msg.meta = {}
        /\ attach_flags[2] = {}
        /\ \E i \in 1 .. Len(queue[2]) : "TIMESTAMP" \in queue[2][i].meta

\* C26 as stated: a copy for a receiver of a broadcast or for a monitor
\* carries no item that the attach flags of that connection do not ask
\* for, whatever the other receivers ask for
C26_OnlyOwnItems ==
    [][\A t \in Threads, c \in ConnIds :
          (/\ Grew(c)
           /\ \/ Broadcasts(t)
              \/ Delivered(t) /\ kdbus_conn_is_monitor(c)) =>
             NewEntry(c).meta \subseteq attach_flags[c]]_vars

(* ------------------------------------------------------------------ *)
(* Properties: buses and users of a domain                             *)
(* ------------------------------------------------------------------ *)

\* the connections that were counted for user u when they were made
CountedConns(u) ==
    {k \in 1 .. Len(domain.conns) :
        domain.conns[k].user = u /\ domain.conns[k].counted}

\* the buses that were counted for user u when they were made
CountedBuses(u) ==
    {i \in 1 .. Len(domain.bus_list) :
        domain.bus_list[i].uid_owner = u /\ domain.bus_list[i].counted}

\* C27: the counters of a user are the numbers of the connections and of
\* the buses that exist and were counted for the user, and are never
\* negative; so a bus is refused with EMFILE to a caller without
\* CAP_IPC_OWNER exactly when KDBUS_USER_MAX_BUSES counted buses of the
\* user exist
C27_CountersBalanced ==
    /\ [](\A u \in DomainUids :
            /\ domain.users[u].connections >= 0
            /\ domain.users[u].buses >= 0
            /\ domain.users[u].connections = Cardinality(CountedConns(u))
            /\ domain.users[u].buses = Cardinality(CountedBuses(u)))
    /\ [][\A t \in Threads :
            (kdbus_bus_new_link(t) /\ ~domain.make[t].capable) =>
               (domain'.make[t].ret = EMFILE <=>
                   Cardinality(CountedBuses(domain.make[t].uid))
                      = KDBUS_USER_MAX_BUSES)]_vars

\* name begins with the whole of prefix
HasPrefix(name, prefix) ==
    /\ Len(name) >= Len(prefix)
    /\ SubSeq(name, 1, Len(prefix)) = prefix

\* C28: kdbus_bus_new() goes on with a name only if the name begins with
\* the decimal uid and a dash, and returns EINVAL for every other name
C28_UidPrefix ==
    [][\A t \in Threads, uid \in DomainUids, capable \in BOOLEAN,
         name \in BusNames, nomem \in BOOLEAN :
          (/\ kdbus_bus_new_find(t, uid, capable, name, nomem)
           /\ ~HasPrefix(name, snprintf_prefix(uid))) =>
             /\ domain'.make[t].ret = EINVAL
             /\ domain'.make[t].pc = "idle"]_vars

\* C29: no two buses of the list of the domain have the same name, and
\* kdbus_bus_new() returns EEXIST for a name that a bus of the list has
C29_UniqueBusNames ==
    /\ [](\A i, j \in 1 .. Len(domain.bus_list) :
            domain.bus_list[i].name = domain.bus_list[j].name => i = j)
    /\ [][\A t \in Threads, uid \in DomainUids, capable \in BOOLEAN,
           name \in BusNames, nomem \in BOOLEAN :
            (/\ kdbus_bus_new_find(t, uid, capable, name, nomem)
             /\ HasPrefix(name, snprintf_prefix(uid))
             /\ \E i \in 1 .. Len(domain.bus_list) :
                   domain.bus_list[i].name = name) =>
               domain'.make[t].ret = EEXIST]_vars

(* ------------------------------------------------------------------ *)
(* Properties: progress of the disconnect                              *)
(* ------------------------------------------------------------------ *)

\* thread t has added the bias to the counter of a connection and waits
\* for the active references to go away
DisconnectStarted(t) == th[t].pc = "d_wait"

\* the disconnect of thread t has torn the connection down
DisconnectDone(t) == th[t].pc = "done" /\ th[t].ret = OK

\* C30: a disconnect that has started completes in the end, when the
\* threads inside the kernel are scheduled fairly; a caller whose sleep
\* for a reply ends while its own connection is not active any more
\* returns ECONNRESET
C30_DisconnectCompletes ==
    /\ \A t \in Threads : DisconnectStarted(t) ~> DisconnectDone(t)
    /\ [][\A t \in Threads :
            (/\ th[t].pc = "s_wait" /\ th'[t].pc = "s_fin"
             /\ ~kdbus_conn_active(th[t].conn)
             /\ now < th[t].until) =>
               th'[t].ret = ECONNRESET]_vars

\* C30 witness: a disconnect waits for the active reference of a caller
\* that sleeps for a reply on the same connection, long before its
\* timeout
C30_Witness ==
    \E t, s \in Threads :
        /\ DisconnectStarted(t)
        /\ th[s].pc = "s_wait"
        /\ th[s].conn = th[t].conn
        /\ replies[th[s].rw].waiting
        /\ now < th[s].until

(* ------------------------------------------------------------------ *)
(* The timeout worker under fair scheduling                            *)
(* ------------------------------------------------------------------ *)

\* system calls of a behaviour in which calls wait for their timeout
MaxExpireCmds == 4

InitExpire == InitName /\ cmds = MaxExpireCmds

\* asynchronous calls to the connection with the highest id and to name 1
ExpireMsgs ==
    LET calls == {m \in LoadMsgs : m.expect_reply}
    IN calls \cup {ToName(m, 1) : m \in calls}

\* the steps inside a system call, and the worker
InsideExpire ==
    \/ \E t \in Threads : kdbus_conn_release(t)
    \/ \E t \in Threads : reply_new_fail(t)
    \/ \E t \in Threads : send_enqueue(t)
    \/ \E c \in ConnIds : kdbus_conn_work(c)

\* one thread of the process of the connection with the highest id sends
\* calls to the connection itself and to name 1, the other one takes the
\* name from the activator and gives it back; time passes
NextExpire ==
    \/ InsideExpire
    \/ \E m \in ExpireMsgs : send_begin("t2", MaxConns, m)
    \/ \E n \in Names : kdbus_name_acquire("t1", MaxConns, n)
    \/ \E n \in Names : kdbus_name_release("t1", MaxConns, n)
    \/ tick

\* a thread inside the kernel and a worker whose time has come run in the
\* end, and time passes
SpecExpire ==
    InitExpire /\ [][NextExpire]_vars /\ WF_vars(InsideExpire) /\ WF_vars(tick)

(* ------------------------------------------------------------------ *)
(* Properties: the timeout worker                                      *)
(* ------------------------------------------------------------------ *)

\* the trackers on the reply list of connection c that the worker looks at
Expirable(c) ==
    {r \in Range(reply_list[c]) : ~(replies[r].sync /\ ~replies[r].interrupted)}

\* the trackers of connection c that the worker leaves for a later run
Remaining(c) == {r \in Expirable(c) : replies[r].deadline_ns > now}

\* number of trackers of connection c whose deadline has passed and for
\* which the worker owes the notification k
Due(c, k) ==
    Cardinality({r \in Expirable(c) \ Remaining(c) :
                    /\ ~replies[r].sync
                    /\ k = <<"REPLY_TIMEOUT", replies[r].reply_dst,
                             replies[r].cookie>>})

\* C31 as stated: a run of the worker on an active connection leaves the
\* trackers of sleeping callers alone, takes every other tracker whose
\* deadline has passed off the list and notifies the caller of an
\* asynchronous one, and is armed again for the earliest deadline left; so
\* every asynchronous tracker that is on a reply list is expired in the end
C31_WorkerExpires ==
    /\ [][\A c \in ConnIds :
            (kdbus_conn_active(c) /\ work[c] # -1 /\ kdbus_conn_work(c)) =>
                /\ \A r \in Range(reply_list[c]) \ Expirable(c) :
                      /\ r \in Range(reply_list'[c])
                      /\ replies'[r] = replies[r]
                /\ \A r \in Expirable(c) :
                      r \in Range(reply_list'[c]) <=> r \in Remaining(c)
                /\ \A k \in NotifyKeys : notify'[k] = notify[k] + Due(c, k)
                /\ Remaining(c) # {} =>
                      /\ work'[c] # -1
                      /\ \A r \in Remaining(c) :
                            work'[c] <= replies[r].deadline_ns
                      /\ \E r \in Remaining(c) :
                            work'[c] = replies[r].deadline_ns]_vars
    /\ \A r \in ReplyIds :
          (r \in Live /\ ~replies[r].sync /\ OnList(r) # {})
              ~> (r \notin Live \/ OnList(r) = {})

(* ------------------------------------------------------------------ *)
(* Requests that are dropped, answered or expired                      *)
(* ------------------------------------------------------------------ *)

\* system calls of a behaviour in which requests are dropped
MaxDropCmds == 4

InitDrop == InitConns /\ flags = AcceptAll /\ cmds = MaxDropCmds

\* the calls of connection 1 to connection 2, each with a cookie of its own
DropCalls ==
    {[NoMsg EXCEPT !.dst_id = MaxConns, !.cookie = k, !.expect_reply = TRUE,
                   !.sync_reply = s, !.timeout_ns = MaxTime] :
        k \in CallCookies, s \in BOOLEAN}

\* the replies of connection 2 to the calls of connection 1
DropReplies ==
    {[NoMsg EXCEPT !.dst_id = 1, !.cookie = 1, !.cookie_reply = k] :
        k \in CallCookies}

\* one thread sends calls on connection 1 and sleeps for the reply of the
\* synchronous ones; the other one answers, receives and drops the
\* requests on connection 2; the worker expires the trackers
NextDrop ==
    \/ \E t \in Threads : kdbus_conn_release(t)
    \/ \E m \in DropCalls :
           m.cookie = msg_seq_last + 1 /\ send_begin("t1", 1, m)
    \/ \E m \in DropReplies : send_begin("t2", MaxConns, m)
    \/ \E t \in Threads : send_enqueue(t)
    \/ \E t \in Threads : send_wait(t)
    \/ \E t \in Threads : send_wait_finish(t)
    \/ \E c \in ConnIds : kdbus_conn_work(c)
    \/ tick
    \/ \E mode \in {"recv", "drop"} : kdbus_cmd_msg_recv("t2", MaxConns, mode)

SpecDrop == InitDrop /\ [][NextDrop]_vars

(* ------------------------------------------------------------------ *)
(* Properties: MSG_RECV with DROP                                      *)
(* ------------------------------------------------------------------ *)

\* the pending trackers of the call whose request is the queue entry e of
\* connection c
TrackerOf(c, e) ==
    {r \in Range(reply_list[c]) :
        /\ e.reply # 0
        /\ replies[r].reply_dst = e.src_id
        /\ replies[r].cookie = e.cookie}

\* C32 as stated: DROP takes the head of the queue off and nothing else;
\* when the entry is a request whose tracker is still on the list, the
\* tracker leaves the list, a sleeping caller is woken with EPIPE and the
\* caller of an asynchronous call gets one ReplyDead notification; when
\* the tracker of the request was resolved before, no tracker changes and
\* nothing is sent
C32_Drop ==
    [][\A t \in Threads, c \in ConnIds :
          (queue[c] # <<>> /\ kdbus_cmd_msg_recv(t, c, "drop")) =>
             LET e == queue[c][1] IN
             /\ queue'[c] = Tail(queue[c])
             /\ \A d \in ConnIds \ {c} : queue'[d] = queue[d]
             /\ \A r \in TrackerOf(c, e) :
                   /\ \A d \in ConnIds : r \notin Range(reply_list'[d])
                   /\ replies[r].sync =>
                         /\ ~replies'[r].waiting
                         /\ replies'[r].err = EPIPE
                         /\ notify' = notify
                   /\ ~replies[r].sync =>
                         notify' = [notify EXCEPT
                                       ![<<"REPLY_DEAD", e.src_id, e.cookie>>]
                                           = @ + 1]
             /\ TrackerOf(c, e) = {} =>
                   /\ replies' = replies
                   /\ reply_list' = reply_list
                   /\ notify' = notify]_vars

(* ------------------------------------------------------------------ *)
(* Properties: the end of reply trackers                               *)
(* ------------------------------------------------------------------ *)

\* connection c has been disconnected: kdbus_conn_disconnect() has
\* returned 0 for it
Disconnected(c) ==
    /\ c \in Conns
    /\ ~kdbus_conn_active(c)
    /\ c \notin Hashed
    /\ \A t \in Threads :
          th[t].conn = c => th[t].pc \notin {"d_wait", "d_replies"}

\* the trackers a thread still holds a pointer to: reply_wait and
\* reply_wake of a send, and the list a disconnect walks
Held ==
    {r \in ReplyIds : \E t \in Threads : \/ th[t].rw = r
                                         \/ th[t].rk = r
                                         \/ r \in Range(splice[t])}

\* C33 as stated: no tracker outlives the disconnect of its caller on the
\* reply list of another connection, and a tracker that has left the
\* reply list (by reply, timeout, cancel or disconnect) is destroyed once
\* no thread uses it
C33_TrackersDestroyed ==
    /\ \A r \in Live :
          Disconnected(replies[r].reply_dst) => OnList(r) = {}
    /\ \A r \in Live : OnList(r) # {} \/ r \in Held

(* ------------------------------------------------------------------ *)
(* Locks: the lock and unlock calls of every function, in program      *)
(* order                                                               *)
(* ------------------------------------------------------------------ *)

\* system calls of a behaviour that looks at the locks only
MaxLockCmds == 2

\* the locks of a domain with one bus and one endpoint
domain_lock == <<"domain->lock", 0>>
bus_lock == <<"bus->lock", 0>>
ep_lock == <<"ep->lock", 0>>
names_lock == <<"name_registry", 0>>
conn_rwlock == <<"bus->conn_rwlock", 0>>
conn_lock(c) == <<"conn->lock", c>>

\* one call: a mutex or the write side of a rwlock is taken exclusively
mutex_lock(l) == [op |-> "lock", l |-> l, w |-> TRUE]
mutex_unlock(l) == [op |-> "unlock", l |-> l, w |-> TRUE]
down_write(l) == [op |-> "lock", l |-> l, w |-> TRUE]
up_write(l) == [op |-> "unlock", l |-> l, w |-> TRUE]
down_read(l) == [op |-> "lock", l |-> l, w |-> FALSE]
up_read(l) == [op |-> "unlock", l |-> l, w |-> FALSE]

\* the calls of the functions a function calls one after the other
RECURSIVE Flat(_)
Flat(ss) == IF ss = <<>> THEN <<>> ELSE Head(ss) \o Flat(Tail(ss))

\* kdbus_conn_work(), lines 225-268
kdbus_conn_work_locks(c) ==
    <<mutex_lock(conn_lock(c)), mutex_unlock(conn_lock(c))>>

\* kdbus_cmd_msg_recv(), lines 289-365
kdbus_cmd_msg_recv_locks(c) ==
    <<mutex_lock(conn_lock(c)), mutex_unlock(conn_lock(c))>>

\* kdbus_cmd_msg_cancel(), lines 415-428, for the connections of list l
kdbus_cmd_msg_cancel_locks(conn, l) ==
    <<down_read(conn_rwlock)>>
    \o Flat([i \in 1 .. Len(l) |->
                IF l[i] = conn THEN <<>>
                ELSE <<mutex_lock(conn_lock(l[i])),
                       mutex_unlock(conn_lock(l[i]))>>])
    \o <<up_read(conn_rwlock)>>

\* kdbus_conn_check_access(), lines 449-461; the bus endpoint has no
\* policy database of its own
kdbus_conn_check_access_locks(conn_src, with_wake) ==
    IF with_wake
    THEN <<mutex_lock(conn_lock(conn_src)), mutex_unlock(conn_lock(conn_src))>>
    ELSE <<>>

\* an insert that takes the lock of the sender as well
kdbus_conn_entry_insert_both_locks(conn, conn_src) ==
    <<mutex_lock(conn_lock(conn)), mutex_lock(conn_lock(conn_src)),
      mutex_unlock(conn_lock(conn_src)), mutex_unlock(conn_lock(conn))>>

\* kdbus_conn_entry_insert(), lines 484-537
kdbus_conn_entry_insert_locks(conn, conn_src) ==
    <<mutex_lock(conn_lock(conn)), mutex_unlock(conn_lock(conn))>>

\* kdbus_conn_broadcast(), lines 573-627, for the connections of list l
kdbus_conn_broadcast_locks(conn_src, l) ==
    <<down_read(conn_rwlock)>>
    \o Flat([i \in 1 .. Len(l) |->
                IF l[i] = conn_src THEN <<>>
                ELSE kdbus_conn_entry_insert_locks(l[i], conn_src)])
    \o <<up_read(conn_rwlock)>>

\* kdbus_conn_eavesdrop(), lines 641-657, for the monitors of list l
kdbus_conn_eavesdrop_locks(conn_src, l) ==
    <<down_read(conn_rwlock)>>
    \o Flat([i \in 1 .. Len(l) |->
                kdbus_conn_entry_insert_locks(l[i], conn_src)])
    \o <<up_read(conn_rwlock)>>

\* kdbus_conn_wait_reply(), lines 686-689 when a signal ends the sleep,
\* else lines 701-716
kdbus_conn_wait_reply_locks(conn_src, conn_dst, signal) ==
    IF signal
    THEN <<mutex_lock(conn_lock(conn_dst)), mutex_unlock(conn_lock(conn_dst))>>
    ELSE <<mutex_lock(conn_lock(conn_dst)), mutex_unlock(conn_lock(conn_dst)),
           mutex_lock(conn_lock(conn_src)), mutex_unlock(conn_lock(conn_src))>>

\* kdbus_bus_find_conn_by_id(), bus.c lines 135-141
kdbus_bus_find_conn_by_id_locks == <<down_read(conn_rwlock), up_read(conn_rwlock)>>

\* kdbus_conn_kmsg_send(), lines 773-937, for a message to a connection:
\* by_name when the destination is looked up by name and the registry
\* stays locked until line 914; sync for SYNC_REPLY; reply when the
\* message names a cookie_reply; wake when a sleeping caller gets the
\* reply; signal when a signal ends the sleep; mons are the monitors
kdbus_conn_kmsg_send_locks(conn_src, conn_dst, by_name, sync, reply, wake, signal, mons) ==
    (IF by_name THEN <<down_read(names_lock)>>
                ELSE kdbus_bus_find_conn_by_id_locks)
    \o (IF sync THEN <<mutex_lock(conn_lock(conn_dst)),
                       mutex_unlock(conn_lock(conn_dst))>>
                ELSE <<>>)
    \o kdbus_conn_check_access_locks(conn_src, reply)
    \o (IF wake THEN <<mutex_lock(conn_lock(conn_dst)),
                       mutex_unlock(conn_lock(conn_dst))>>
                ELSE kdbus_conn_entry_insert_locks(conn_dst, conn_src))
    \o kdbus_conn_eavesdrop_locks(conn_src, mons)
    \o (IF by_name THEN <<up_read(names_lock)>> ELSE <<>>)
    \o (IF sync THEN kdbus_conn_wait_reply_locks(conn_src, conn_dst, signal)
                ELSE <<>>)

\* kdbus_conn_move_messages(), lines 1218-1259
kdbus_conn_move_messages_locks(conn_dst, conn_src) ==
    <<mutex_lock(conn_lock(conn_src)), mutex_unlock(conn_lock(conn_src)),
      mutex_lock(conn_lock(conn_dst)), mutex_unlock(conn_lock(conn_dst))>>

\* kdbus_name_acquire() and kdbus_name_release() when the name changes
\* hands between an activator and an implementor: the registry is locked
\* for writing, and kdbus_conn_move_messages() runs under the lock of the
\* bus (line 1213)
kdbus_name_move_locks(conn_dst, conn_src) ==
    <<mutex_lock(bus_lock), down_write(names_lock)>>
    \o kdbus_conn_move_messages_locks(conn_dst, conn_src)
    \o <<up_write(names_lock), mutex_unlock(bus_lock)>>

\* kdbus_name_remove_by_conn(): moved is the activator that gets the
\* messages of a name of the connection back, 0 if there is none
kdbus_name_remove_by_conn_locks(conn, moved) ==
    IF moved = 0
    THEN <<down_write(names_lock), up_write(names_lock)>>
    ELSE kdbus_name_move_locks(moved, conn)

\* kdbus_conn_disconnect(), lines 960-1022
kdbus_conn_disconnect_locks(conn, moved) ==
    <<mutex_lock(conn_lock(conn)), mutex_unlock(conn_lock(conn)),
      mutex_lock(ep_lock), down_write(conn_rwlock),
      up_write(conn_rwlock), mutex_unlock(ep_lock)>>
    \o kdbus_name_remove_by_conn_locks(conn, moved)
    \o <<mutex_lock(conn_lock(conn)), mutex_unlock(conn_lock(conn))>>

\* kdbus_conn_new(), lines 1630-1632 for a monitor, and lines 1682-1704
kdbus_conn_new_locks(is_monitor) ==
    (IF is_monitor THEN <<down_write(conn_rwlock), up_write(conn_rwlock)>>
                   ELSE <<>>)
    \o <<mutex_lock(bus_lock), mutex_lock(ep_lock), down_write(conn_rwlock),
         up_write(conn_rwlock), mutex_unlock(ep_lock), mutex_unlock(bus_lock)>>

\* kdbus_ep_disconnect(), endpoint.c lines 72-106, for the connections of
\* list l
kdbus_ep_disconnect_locks(l) ==
    <<mutex_lock(ep_lock), mutex_unlock(ep_lock),
      mutex_lock(bus_lock), mutex_unlock(bus_lock)>>
    \o Flat([i \in 1 .. Len(l) |->
                <<mutex_lock(ep_lock), mutex_unlock(ep_lock)>>
                \o kdbus_conn_disconnect_locks(l[i], 0)])
    \o <<mutex_lock(ep_lock), mutex_unlock(ep_lock)>>

\* kdbus_bus_disconnect(), bus.c lines 155-183, for a bus with its one
\* endpoint and the connections of list l
kdbus_bus_disconnect_locks(l) ==
    <<mutex_lock(bus_lock), mutex_unlock(bus_lock),
      mutex_lock(domain_lock), mutex_unlock(domain_lock),
      mutex_lock(bus_lock), mutex_unlock(bus_lock)>>
    \o kdbus_ep_disconnect_locks(l)
    \o <<mutex_lock(bus_lock), mutex_unlock(bus_lock)>>

\* kdbus_bus_new(), bus.c lines 199-207 (kdbus_bus_find) and 359-381
kdbus_bus_new_locks ==
    <<mutex_lock(domain_lock), mutex_unlock(domain_lock),
      mutex_lock(domain_lock), mutex_unlock(domain_lock)>>

\* kdbus_ep_new(), endpoint.c lines 199-228
kdbus_ep_new_locks == <<mutex_lock(bus_lock), mutex_unlock(bus_lock)>>

\* the functions that threads run at the same time, with the connections
\* they work on: senders, receivers, the worker, HELLO, disconnects and
\* names that change hands
LockScripts ==
    LET cs == 1 .. MaxConns
        all == hash_for_each(0)
        two == {p \in cs \X cs : p[1] # p[2]}
    IN {kdbus_conn_kmsg_send_locks(p[1], p[2], n, y, r, r /\ k, y /\ g,
                                   monitors_list) :
           p \in two, n \in BOOLEAN, y \in BOOLEAN, r \in BOOLEAN,
           k \in BOOLEAN, g \in BOOLEAN}
       \cup {kdbus_conn_broadcast_locks(s, all) : s \in cs}
       \cup {kdbus_cmd_msg_cancel_locks(c, all) : c \in cs}
       \cup {kdbus_cmd_msg_recv_locks(c) : c \in cs}
       \cup {kdbus_conn_work_locks(c) : c \in cs}
       \cup {kdbus_conn_new_locks(m) : m \in BOOLEAN}
       \cup {kdbus_conn_disconnect_locks(c, 0) : c \in cs}
       \cup {kdbus_conn_disconnect_locks(p[1], p[2]) : p \in two}
       \cup {kdbus_name_move_locks(p[1], p[2]) : p \in two}
       \cup {kdbus_ep_disconnect_locks(ep_conn_list),
             kdbus_bus_disconnect_locks(ep_conn_list),
             kdbus_bus_new_locks, kdbus_ep_new_locks}

\* the locks that threads other than t hold, and those they hold for
\* writing
HeldByOthers(t, w) ==
    {h.l : h \in UNION {{x \in th[u].held : w => x.w} : u \in Threads \ {t}}}

\* the call s of thread t returns at once
MayTake(t, s) ==
    \/ s.op = "unlock"
    \/ s.w /\ s.l \notin HeldByOthers(t, FALSE)
    \/ ~s.w /\ s.l \notin HeldByOthers(t, TRUE)

\* thread t enters a function that takes locks as the sequence l says
lock_begin(t, l) ==
    /\ syscall_enter(t)
    /\ ~th[t].restart
    /\ l # <<>>
    /\ th' = [th EXCEPT ![t].pc = "locks", ![t].todo = l]
    /\ UNCHANGED <<connVars, heapVars, msg_seq_last, now>>

\* the next lock or unlock call of thread t returns
lock_step(t) ==
    /\ bug = ""
    /\ th[t].pc = "locks"
    /\ th[t].todo # <<>>
    /\ LET s == Head(th[t].todo)
           h == [l |-> s.l, w |-> s.w]
       IN /\ MayTake(t, s)
          /\ th' = [th EXCEPT ![t].todo = Tail(@),
                              ![t].held = IF s.op = "lock"
                                          THEN @ \cup {h} ELSE @ \ {h}]
    /\ UNCHANGED <<connVars, heapVars, msg_seq_last, now, cmds>>

\* the function of thread t returns
lock_return(t) ==
    /\ bug = ""
    /\ th[t].pc = "locks"
    /\ th[t].todo = <<>>
    /\ th' = [th EXCEPT ![t] = Idle]
    /\ UNCHANGED <<connVars, heapVars, msg_seq_last, now, cmds>>

\* a bus with two ordinary connections and a monitor
InitLocks ==
    /\ conn_seq_last = MaxPeers
    /\ active = [c \in ConnIds |-> 0]
    /\ cred = [c \in ConnIds |-> BusUidOwner]
    /\ flags = [c \in ConnIds |-> IF c = MaxPeers THEN {KDBUS_HELLO_MONITOR}
                                                 ELSE {KDBUS_HELLO_ACCEPT_FD}]
    /\ attach_flags = [c \in ConnIds |-> {}]
    /\ conn_hash = [b \in 0 .. HashBuckets - 1 |->
                       {c \in ConnIds : BucketOf(c) = b}]
    /\ ep_conn_list = [i \in 1 .. MaxPeers |-> i]
    /\ name_registry = NoNames
    /\ bus = [NoBus EXCEPT !.monitors_list =
                               SelectSeq(ep_conn_list, kdbus_conn_is_monitor)]
    /\ InitHeap
    /\ cmds = MaxLockCmds

NextLocks ==
    \/ \E t \in Threads :
          th[t].pc = "idle" /\ \E l \in LockScripts : lock_begin(t, l)
    \/ \E t \in Threads : lock_step(t)
    \/ \E t \in Threads : lock_return(t)

SpecLocks == InitLocks /\ [][NextLocks]_vars

(* ------------------------------------------------------------------ *)
(* Properties: the order of the locks                                  *)
(* ------------------------------------------------------------------ *)

\* the place of a lock in the order domain, bus, endpoint, registry,
\* connection
Rank(l) ==
    CASE l[1] = "domain->lock" -> 1
      [] l[1] = "bus->lock" -> 2
      [] l[1] = "ep->lock" -> 3
      [] l[1] = "name_registry" -> 4
      [] l[1] = "bus->conn_rwlock" -> 4
      [] OTHER -> 5

\* lock a comes before lock b in the order; conn_rwlock comes after the
\* endpoint and before the connections, two connections have no order
Before(a, b) ==
    /\ Rank(a) < Rank(b)

\* thread t is at a lock call that does not return now
Blocked(t) ==
    /\ th[t].pc = "locks"
    /\ th[t].todo # <<>>
    /\ ~MayTake(t, Head(th[t].todo))

\* C34: a thread that takes a lock holds no lock that comes after it in
\* the order, none of the same place, and so never the lock of another
\* connection; a thread is never asked to release what it does not hold;
\* and whenever threads are inside functions, one of them is not blocked
C34_LockOrder ==
    /\ \A t \in Threads :
          th[t].todo # <<>> =>
             LET s == Head(th[t].todo) IN
             /\ s.op = "lock" =>
                   \A h \in th[t].held :
                      /\ ~Before(s.l, h.l)
                      /\ s.l[1] # h.l[1]
             /\ s.op = "unlock" => [l |-> s.l, w |-> s.w] \in th[t].held
    /\ (\E t \in Threads : th[t].pc = "locks") =>
          \E t \in Threads : th[t].pc = "locks" /\ ~Blocked(t)

\* C34 witness: a thread holds the locks of the bus, of the endpoint and
\* the write side of conn_rwlock while another thread, which has locked
\* the registry, waits for conn_rwlock
C34_Witness ==
    \E t, u \in Threads :
        /\ {h.l : h \in th[t].held} = {bus_lock, ep_lock, conn_rwlock}
        /\ names_lock \in {h.l : h \in th[u].held}
        /\ Blocked(u)
        /\ Head(th[u].todo).l = conn_rwlock

(* ------------------------------------------------------------------ *)
(* The teardown of a bus and HELLO                                     *)
(* ------------------------------------------------------------------ *)

\* system calls of a behaviour that makes connections and tears the bus
\* down
MaxDownCmds == 4

\* kdbus_bus_disconnect(), bus.c lines 155-161: the first caller marks
\* the bus, any other returns at once.  (The list of the domain, lines
\* 164-166, is not looked at by the commands on connections.)
kdbus_bus_disconnect(t) ==
    /\ syscall_enter(t)
    /\ ~th[t].restart
    /\ IF bus.disconnected
       THEN /\ th' = [th EXCEPT ![t] = [Idle EXCEPT !.pc = "done",
                                                    !.cmd = "bus_disconnect"]]
            /\ UNCHANGED bus
       ELSE /\ th' = [th EXCEPT ![t] = [Idle EXCEPT !.pc = "bd_loop",
                                                    !.cmd = "bus_disconnect"]]
            /\ bus' = [bus EXCEPT !.disconnected = TRUE]
    /\ UNCHANGED <<conn_seq_last, active, cred, domain, flags, name_registry,
                   attach_flags, conn_hash, ep_conn_list, heapVars,
                   msg_seq_last, now>>

\* kdbus_bus_disconnect(), bus.c lines 169-190: the first endpoint of
\* bus->ep_list is disconnected next, the function returns when there is
\* none
bus_disconnect_next(t) ==
    /\ bug = ""
    /\ th[t].pc = "bd_loop"
    /\ th' = [th EXCEPT ![t].pc = IF bus.ep_list = <<>> THEN "done"
                                                        ELSE "ed_begin"]
    /\ UNCHANGED <<connVars, heapVars, msg_seq_last, now, cmds>>

\* kdbus_ep_disconnect(), endpoint.c lines 72-78
kdbus_ep_disconnect(t) ==
    /\ bug = ""
    /\ th[t].pc = "ed_begin"
    /\ IF bus.ep_disconnected
       THEN /\ th' = [th EXCEPT ![t].pc = "bd_loop"]
            /\ UNCHANGED bus
       ELSE /\ th' = [th EXCEPT ![t].pc = "ed_unlink"]
            /\ bus' = [bus EXCEPT !.ep_disconnected = TRUE]
    /\ UNCHANGED <<conn_seq_last, active, cred, domain, flags, name_registry,
                   attach_flags, conn_hash, ep_conn_list, heapVars,
                   msg_seq_last, now, cmds>>

\* kdbus_ep_disconnect(), endpoint.c lines 81-83
ep_disconnect_unlink(t) ==
    /\ bug = ""
    /\ th[t].pc = "ed_unlink"
    /\ bus' = [bus EXCEPT !.ep_list = Remove(@, "bus")]
    /\ th' = [th EXCEPT ![t].pc = "ed_loop"]
    /\ UNCHANGED <<conn_seq_last, active, cred, domain, flags, name_registry,
                   attach_flags, conn_hash, ep_conn_list, heapVars,
                   msg_seq_last, now, cmds>>

\* what a read of conn->active finds in a connection that was freed
FreedActive == {"active", "inactive", "oops"}

\* kdbus_ep_disconnect(), endpoint.c lines 91-109, with lines 960-974 of
\* kdbus_conn_disconnect(conn, false): the first connection of
\* ep->conn_list is disconnected next; when another thread is tearing it
\* down the call returns -EALREADY and the loop comes back to it.  The
\* list can hold a connection that kdbus_conn_new() has freed
ep_disconnect_next(t) ==
    /\ bug = ""
    /\ th[t].pc = "ed_loop"
    /\ IF ep_conn_list = <<>>
       THEN /\ th' = [th EXCEPT ![t].pc = "bd_loop"]
            /\ UNCHANGED <<active, bug>>
       ELSE LET c == Head(ep_conn_list) IN
            \E seen \in FreedActive :
               /\ c \notin bus.freed =>
                     seen = IF kdbus_conn_active(c) THEN "active"
                                                    ELSE "inactive"
               /\ CASE seen = "active" ->
                          /\ th' = [th EXCEPT ![t].pc = "d_wait",
                                              ![t].conn = c,
                                              ![t].caller = "ed_loop"]
                          /\ active' = [active EXCEPT ![c] =
                                           @ + KDBUS_CONN_ACTIVE_BIAS]
                          /\ UNCHANGED bug
                    [] seen = "inactive" -> UNCHANGED <<th, active, bug>>
                    [] OTHER ->
                          /\ bug' = "kdbus_ep_disconnect: freed connection"
                          /\ UNCHANGED <<th, active>>
    /\ UNCHANGED <<conn_seq_last, bus, cred, domain, flags, name_registry,
                   attach_flags, conn_hash, ep_conn_list, queue, msg_users,
                   reply_list, reply_count, replies, work, splice, notify,
                   answered, msg_seq_last, now, cmds>>

\* the flags of HELLO
HelloFlags == {{}, {KDBUS_HELLO_ACCEPT_FD}, {KDBUS_HELLO_MONITOR},
               {KDBUS_HELLO_ACTIVATOR}}

\* a new bus
InitDown ==
    /\ conn_seq_last = 0
    /\ active = [c \in ConnIds |-> 0]
    /\ cred = [c \in ConnIds |-> ""]
    /\ flags = [c \in ConnIds |-> {}]
    /\ conn_hash = [b \in 0 .. HashBuckets - 1 |-> {}]
    /\ ep_conn_list = <<>>
    /\ cmds = MaxDownCmds
    /\ InitRest

\* threads make connections, close them, and close the bus
NextDown ==
    \/ \E t \in Threads, f \in HelloFlags, n \in Names, fail \in HelloFail :
           kdbus_cmd_hello(t, f, n, fail)
    \/ \E t \in Threads : syscall_return(t)
    \/ \E t \in Threads, c \in ConnIds :
           c \notin bus.freed /\ disconnect_begin(t, c, TRUE)
    \/ \E t \in Threads : disconnect_teardown(t)
    \/ \E t \in Threads : disconnect_replies(t)
    \/ \E t \in Threads : kdbus_bus_disconnect(t)
    \/ \E t \in Threads : bus_disconnect_next(t)
    \/ \E t \in Threads : kdbus_ep_disconnect(t)
    \/ \E t \in Threads : ep_disconnect_unlink(t)
    \/ \E t \in Threads : ep_disconnect_next(t)

SpecDown == InitDown /\ [][NextDown]_vars

(* ------------------------------------------------------------------ *)
(* Properties: the teardown of a bus                                   *)
(* ------------------------------------------------------------------ *)

\* connection c is a connection of a client, not one HELLO has freed
Made(c) == c \in Conns \ bus.freed

\* C35: once kdbus_bus_disconnect() has returned to a thread, the
\* endpoint of the bus is disconnected and off the list of the bus, and
\* every connection made through it is inactive and out of the hash; and
\* a HELLO on a bus or an endpoint that is marked disconnected makes no
\* connection
C35_Teardown ==
    /\ [](\A t \in Threads :
             th[t].pc = "done" /\ th[t].cmd = "bus_disconnect" =>
                /\ bus.ep_disconnected
                /\ bus.ep_list = <<>>
                /\ \A c \in ConnIds :
                      Made(c) => ~kdbus_conn_active(c) /\ c \notin Hashed)
    /\ [][\A t \in Threads :
             /\ bus.disconnected \/ bus.ep_disconnected
             /\ th[t].pc = "idle"
             /\ th'[t].pc = "done"
             /\ th'[t].cmd = "hello"
             => /\ th'[t].ret # OK
                /\ conn_hash' = conn_hash
                /\ ep_conn_list' = ep_conn_list]_vars

(* ------------------------------------------------------------------ *)
(* Properties: a HELLO that fails                                      *)
(* ------------------------------------------------------------------ *)

\* connection c is linked somewhere on the bus
Traces(c) ==
    {w \in {"conn_hash", "ep->conn_list", "monitors_list", "name_registry"} :
        CASE w = "conn_hash" -> c \in Hashed
          [] w = "ep->conn_list" -> c \in Range(ep_conn_list)
          [] w = "monitors_list" -> c \in Range(bus.monitors_list)
          [] OTHER -> \E n \in Names :
                         c \in {name_registry.entries[n].conn,
                                name_registry.entries[n].activator}}

\* C40: when kdbus_conn_new() has returned an error for a connection that
\* had its id, the connection is in neither the hash, the list of the
\* endpoint, the list of monitors nor the name registry
C40_NoTrace ==
    \A t \in Threads :
        th[t].pc = "done" /\ th[t].cmd = "hello"
        /\ th[t].ret \notin {OK, EPERM} =>
           Traces(th[t].conn) = {}

(* ------------------------------------------------------------------ *)
(* Properties: the assertion of kdbus_conn_reply_sync()                *)
(* ------------------------------------------------------------------ *)

\* C37: BUG_ON(!reply->sync) in kdbus_conn_reply_sync() does not fire
C37_SyncOnly == bug # "kdbus_conn_reply_sync"

(* ------------------------------------------------------------------ *)
(* Asynchronous calls and what becomes of them                         *)
(* ------------------------------------------------------------------ *)

\* system calls of a behaviour of asynchronous calls
MaxCallCmds == 4

\* the bus; the caller, connection 1, accepts file descriptors or not
InitCall ==
    /\ InitConns
    /\ flags \in {f \in [ConnIds -> SUBSET {KDBUS_HELLO_ACCEPT_FD}] :
                     \A c \in ConnIds \ {1} : f[c] = {KDBUS_HELLO_ACCEPT_FD}}
    /\ cmds = MaxCallCmds

\* the asynchronous calls of connection 1 to connection 2
AsyncCalls == {m \in DropCalls : ~m.sync_reply}

\* the replies of connection 2, with and without file descriptors
FdReplies ==
    {[m EXCEPT !.fds_count = f] : m \in DropReplies, f \in 0 .. MaxFds}

\* one thread sends calls on connection 1, which receives nothing; the
\* other one answers, receives and drops the requests on connection 2 and
\* closes it; the worker expires the trackers
NextCall ==
    \/ \E t \in Threads : kdbus_conn_release(t)
    \/ \E t \in Threads : syscall_return(t)
    \/ \E m \in AsyncCalls :
           m.cookie = msg_seq_last + 1 /\ send_begin("t1", 1, m)
    \/ \E m \in FdReplies : send_begin("t2", MaxConns, m)
    \/ \E t \in Threads : send_enqueue(t)
    \/ \E c \in ConnIds : kdbus_conn_work(c)
    \/ tick
    \/ \E mode \in {"recv", "drop"} : kdbus_cmd_msg_recv("t2", MaxConns, mode)
    \/ disconnect_begin("t2", MaxConns, FALSE)
    \/ \E t \in Threads : disconnect_teardown(t)
    \/ \E t \in Threads : disconnect_replies(t)

SpecCall == InitCall /\ [][NextCall]_vars

(* ------------------------------------------------------------------ *)
(* Properties: one resolution for every call                           *)
(* ------------------------------------------------------------------ *)

\* the replies to call k that are or were in the queue of connection c,
\* which receives nothing
RepliesQueued(c, k) ==
    Cardinality({i \in DOMAIN queue[c] : queue[c][i].cookie_reply = k})

\* what connection c has got for its call k: replies and notifications
Resolutions(c, k) ==
    RepliesQueued(c, k) + notify[<<"REPLY_TIMEOUT", c, k>>]
    + notify[<<"REPLY_DEAD", c, k>>]

\* a thread is sending a reply to call k of connection c
Replying(c, k) ==
    \E t \in Threads : /\ th[t].pc = "s_enqueue"
                       /\ th[t].dst = c
                       /\ th[t].msg.cookie_reply = k

\* C36: an asynchronous call is never resolved more than once, by reply,
\* ReplyTimeout or ReplyDead, and when a reply has consumed its tracker
\* the reply is enqueued on the caller
C36_ResolvedOnce ==
    \A k \in CallCookies :
        /\ Resolutions(1, k) <= 1
        /\ (\E r \in ConnIds : <<1, r, k>> \in answered) /\ ~Replying(1, k)
           => Resolutions(1, k) = 1

(* ------------------------------------------------------------------ *)
(* Properties: one ReplyDead for a call                                *)
(* ------------------------------------------------------------------ *)

\* C38: a call gets at most one ReplyDead notification, also when the
\* connection that disconnects has the request in its queue and the
\* tracker on its reply list, and none when the call was resolved by a
\* reply or a timeout before
C38_OneReplyDead ==
    \A k \in CallCookies :
        /\ notify[<<"REPLY_DEAD", 1, k>>] <= 1
        /\ RepliesQueued(1, k) + notify[<<"REPLY_TIMEOUT", 1, k>>] > 0
           => notify[<<"REPLY_DEAD", 1, k>>] = 0

(* ------------------------------------------------------------------ *)
(* Synchronous calls to a name that changes hands                      *)
(* ------------------------------------------------------------------ *)

\* system calls of a behaviour of synchronous calls to a name
MaxWaitCmds == 4

\* a bus with an activator of name 1 (connection 1), a caller
\* (connection 2) and an implementor to be (connection 3)
InitWait ==
    /\ conn_seq_last = MaxPeers
    /\ active = [c \in ConnIds |-> 0]
    /\ cred = [c \in ConnIds |-> BusUidOwner]
    /\ flags = [c \in ConnIds |->
                   IF c = 1 THEN {KDBUS_HELLO_ACTIVATOR}
                            ELSE {KDBUS_HELLO_ACCEPT_FD}]
    /\ conn_hash = [b \in 0 .. HashBuckets - 1 |->
                       {c \in ConnIds : BucketOf(c) = b}]
    /\ ep_conn_list = [i \in 1 .. MaxPeers |-> i]
    /\ name_registry =
           [name_seq_last |-> 1,
            entries |-> [n \in Names |->
                            IF n = 1 THEN [name_id |-> 1, conn |-> 0,
                                           activator |-> 1]
                                     ELSE NoName]]
    /\ attach_flags = [c \in ConnIds |-> {}]
    /\ bus = NoBus
    /\ InitHeap
    /\ cmds = MaxWaitCmds

\* synchronous calls to name 1
WaitMsgs == {ToName([m EXCEPT !.dst_id = KDBUS_DST_ID_NAME], 1) : m \in SyncMsgs}

\* one thread calls name 1 on connection 2 and sleeps; the other one
\* takes the name on connection 3 and gives it back, and closes the
\* activator or the implementor
NextWait ==
    \/ \E t \in Threads : kdbus_conn_release(t)
    \/ \E t \in Threads : syscall_return(t)
    \/ \E m \in WaitMsgs : send_begin("t2", MaxConns, m)
    \/ \E t \in Threads : send_enqueue(t)
    \/ \E t \in Threads : send_wait(t)
    \/ \E t \in Threads : send_wait_finish(t)
    \/ tick
    \/ \E n \in Names : kdbus_name_acquire("t1", MaxPeers, n)
    \/ \E n \in Names : kdbus_name_release("t1", MaxPeers, n)
    \/ \E c \in {1, MaxPeers} : disconnect_begin("t1", c, FALSE)
    \/ \E t \in Threads : disconnect_teardown(t)
    \/ \E t \in Threads : disconnect_replies(t)

SpecWait == InitWait /\ [][NextWait]_vars

(* ------------------------------------------------------------------ *)
(* Properties: the tracker of a sleeping sender                        *)
(* ------------------------------------------------------------------ *)

\* thread t sleeps on a tracker or is about to take its reply from it
Sleeping(t) == th[t].pc \in {"s_wait", "s_fin"}

\* C39: no step frees a tracker that a sender other than the thread of
\* the step still sleeps on, and a sender that unlinks its tracker under
\* the lock of conn_dst (kdbus_conn_wait_reply(), lines 701-703) finds it
\* on no other list: neither on the reply list of another connection nor
\* on the list a disconnect has spliced off and walks without a lock
C39_TrackerLinkage ==
    /\ [][\A t \in Threads :
             Sleeping(t) /\ ~replies[th[t].rw].free
             /\ replies'[th[t].rw].free
             => ~Sleeping(t)']_vars
    /\ [][\A t \in Threads :
             th[t].pc = "s_wait" /\ th'[t].pc = "s_fin"
             => /\ OnList(th[t].rw) \subseteq {th[t].dst}
                /\ \A u \in Threads : th[t].rw \notin Range(splice[u])]_vars

====
